---------------------------- MODULE Spec2Model ----------------------------
(***************************************************************************)
(* Survey/feedback backend (FastAPI + SQLAlchemy): the answer-submission   *)
(* (upsert) engine, completion accounting and the administrative deletes,  *)
(* modelled as a state machine over the relational store.                  *)
(*                                                                         *)
(* Conventions                                                             *)
(*   - a nullable column / Optional value is a set with at most one        *)
(*     element: None is {}, a present value v is {v};                      *)
(*   - a table is a function from primary key to row;                      *)
(*   - `response` is the HTTP response of the request handled last.        *)
(***************************************************************************)
EXTENDS Integers, Sequences, FiniteSets, TLC

(***************************************************************************)
(* Bounds of the model                                                     *)
(***************************************************************************)
MaxQuestionId == 2      \* questions.id sequence is exhausted after this id
MaxAnswerId   == 2      \* user_answers.id sequence is exhausted after this id
MaxProfiles   == 2      \* distinct UUIDs uuid4() can return
MaxClock      == 1      \* the server clock takes the values 0..MaxClock
MaxBatch      == 2      \* longest List[AnswerSubmit] a request carries
MaxSurvey     == 3      \* questions of the survey in the completion report runs
MaxRequests   == 2      \* submit_answers requests in flight in the overlapping runs
MaxCompanyId  == 2      \* largest Company.id the sequence hands out
MaxSectionId  == 2      \* largest Section.id the sequence hands out
MaxRaters     == 3      \* profiles answering the rated question in the rating runs
MaxReportQuestions == 3 \* questions in the collective report runs
MaxSleeps     == 2      \* pauses of about one expiration window between requests
MaxBoots      == 2      \* starts of the process against one database

None    == {}
Some(v) == {v}
\* The value of a present Optional.
Get(o)  == CHOOSE v \in o : TRUE

\* The empty table.
EmptyTable == [k \in {} |-> {}]

\* Python's str.strip(): the texts of the model are "", " " (blank) and words.
strip(s) == IF s = " " THEN "" ELSE s

VARIABLES
    companies,      \* companies      : id -> [name]
    sections,       \* sections       : id -> [company_id]
    questions,      \* questions      : id -> [section_id]
    profiles,       \* profiles       : uuid -> [email, company_id]
    users,          \* users          : id -> [email, hashed_password, company_id]
    answers,        \* user_answers   : id -> UserAnswer row (committed)
    seq,            \* the id sequences of the store: [questions, answers, ...]
    clock,          \* datetime.now()
    sessions,       \* requests in flight: request -> session (interleaved runs)
    reset_codes,    \* reset_codes    : email -> [otp, timestamp] (process memory)
    admin_login,    \* admin_login    : id -> [email, hashed_password]
    startup,        \* startup_event  : [pc, tables, log, boots]
    response        \* response of the request handled last

vars == <<companies, sections, questions, profiles, users, answers, seq, clock,
          sessions, reset_codes, admin_login, startup, response>>

store == <<companies, sections, questions, profiles, users, answers>>

\* pwd_context.hash salts the hash: two hashes of one password differ, and a
\* hash verifies exactly the password it was made from.
Salts == {"s1", "s2"}
get_password_hash(password, salt) == [password |-> password, salt |-> salt]
verify_password(plain_password, hashed_password) ==
    hashed_password.password = plain_password

ADMIN_EMAIL == "stefan.zanetti@pivotal.ag"

\* The stored hash of the password of the legacy user.
StaffHash == get_password_hash("pw", "s1")

\* The process has started against a database that holds the default
\* administrator, and no reset code has been issued.
Started ==
    /\ reset_codes = EmptyTable
    /\ admin_login = (1 :> [email |-> ADMIN_EMAIL,
                            hashed_password |-> get_password_hash("admin123", "s1")])
    /\ startup = [pc |-> "serving", tables |-> TRUE, log |-> <<>>, boots |-> 0]


(***************************************************************************)
(* submitted_at: parsing of the client's timestamp string                  *)
(*                                                                         *)
(* A timestamp string is a sequence of tokens:                             *)
(*   "D"       a well-formed ISO-8601 date-time body without zone          *)
(*   "+00:00"  a UTC offset suffix                                         *)
(*   "Z"       the literal zone marker                                     *)
(*   "x"       anything else ("not-a-date")                                *)
(* A datetime value is [src, tz, at]: src "client" (parsed) or "server"    *)
(* (datetime.now(), read at clock value `at`).                             *)
(***************************************************************************)
StampTokens == {"D", "+00:00", "Z", "x"}

\* str.replace('Z', '+00:00'): every occurrence is replaced.
replaceZ(s) == [i \in DOMAIN s |-> IF s[i] = "Z" THEN "+00:00" ELSE s[i]]

\* datetime.fromisoformat: Some(datetime), or None for ValueError. Whether a
\* trailing "Z" is accepted depends on the interpreter (3.11 and later do).
fromisoformat(s, py311) ==
    IF s = <<"D">> THEN Some([src |-> "client", tz |-> "naive", at |-> 0])
    ELSE IF s = <<"D", "+00:00">> \/ (py311 /\ s = <<"D", "Z">>)
         THEN Some([src |-> "client", tz |-> "utc", at |-> 0])
         ELSE None

\* datetime.now()
now(t) == [src |-> "server", tz |-> "naive", at |-> t]

\* Mutant: a malformed timestamp is stored as NULL instead of the current time.
ParseSubmittedAtNull(submitted_at, t, py311) ==
    IF submitted_at # None /\ Get(submitted_at) # <<>>
    THEN LET first == fromisoformat(replaceZ(Get(submitted_at)), py311)
         IN  IF first # None THEN first ELSE None
    ELSE Some(now(t))

\* submit_answers, "Parse submitted_at if provided": the value of the
\* submitted_at column (always present).
ParseSubmittedAt(submitted_at, t, py311) ==
    IF submitted_at # None /\ Get(submitted_at) # <<>>
    THEN LET first == fromisoformat(replaceZ(Get(submitted_at)), py311)
         IN  IF first # None THEN first
             ELSE LET second == fromisoformat(Get(submitted_at), py311)
                  IN  IF second # None THEN second ELSE Some(now(t))
    ELSE Some(now(t))

(***************************************************************************)
(* The unit of work of one request: a SQLAlchemy Session                   *)
(* (autocommit=False, autoflush=False) over user_answers.                  *)
(*   new     rows added and flushed (INSERTed) in the open transaction     *)
(*   loaded  rows read into the identity map, as they were when read       *)
(*   dirty   those rows with the attribute values assigned since           *)
(*   nextval the next value of the user_answers id sequence                *)
(*   saved   the saved_answers list                                        *)
(***************************************************************************)
NewSession(nextval) ==
    [new |-> EmptyTable, loaded |-> EmptyTable, dirty |-> EmptyTable,
     nextval |-> nextval, saved |-> <<>>]

\* What a query of this session returns for user_answers: the committed rows
\* and its own inserts; a row already loaded and modified is the loaded object.
SessionView(db_answers, st) ==
    [id \in DOMAIN db_answers \cup DOMAIN st.new |->
        IF id \in DOMAIN st.new THEN st.new[id]
        ELSE IF id \in DOMAIN st.dirty THEN st.dirty[id]
        ELSE db_answers[id]]

\* db.query(UserAnswer).filter(user_id == .., question_id == ..): the ids
\* .first() may return (no ORDER BY: any matching row).
ExistingAnswers(db_answers, st, user_id, question_id) ==
    LET view == SessionView(db_answers, st)
    IN  {id \in DOMAIN view : /\ view[id].user_id = user_id
                              /\ view[id].question_id = question_id}

\* Attribute assignment on a pending object, or on a loaded one (kept in the
\* identity map as first read; a later query does not refresh it).
SetRow(db_answers, st, id, row) ==
    IF id \in DOMAIN st.new
    THEN [st EXCEPT !.new = [st.new EXCEPT ![id] = row]]
    ELSE [st EXCEPT !.dirty = (id :> row) @@ st.dirty,
                    !.loaded = st.loaded @@ (id :> db_answers[id])]

\* Mutant: the update branch leaves the rating as it was.
UpdateExistingKeepRating(row, answer, rating, submitted_at) ==
    [row EXCEPT !.answer = answer, !.submitted_at = submitted_at]

\* Mutant: the update branch also resets the feedback of the answer.
UpdateExistingResetFeedback(row, answer, rating, submitted_at) ==
    [row EXCEPT !.answer = answer, !.rating = rating, !.submitted_at = submitted_at,
                !.feedback = None, !.feedback_generated = FALSE]

\* "Update existing answer": answer, rating, submitted_at are overwritten.
UpdateExisting(row, answer, rating, submitted_at) ==
    [row EXCEPT !.answer = answer, !.rating = rating, !.submitted_at = submitted_at]

\* "Create new answer": UserAnswer(...)
CreateAnswer(question_id, user_id, answer, rating, submitted_at) ==
    [question_id |-> question_id, user_id |-> user_id, answer |-> answer,
     feedback |-> None, feedback_generated |-> FALSE, rating |-> rating,
     submitted_at |-> submitted_at]

\* "Create new answer": db.add(db_answer); the INSERT takes the next id of the
\* sequence (db.flush() in submit_answers, db.commit() in submit_answer).
InsertAnswer(db_answers, st, user_id, question_id, answer, rating, submitted_at) ==
    IF st.nextval > MaxAnswerId THEN {}
    ELSE {[st EXCEPT
            !.new = (st.nextval :>
                       CreateAnswer(question_id, user_id, answer, rating, submitted_at))
                    @@ st.new,
            !.nextval = st.nextval + 1,
            !.saved = Append(st.saved, [question_id |-> question_id,
                                        answer_id |-> st.nextval])]}

\* Mutant: always insert, never look for an existing answer.
UpsertAlwaysInsert(db_answers, st, user_id, question_id, answer, rating, submitted_at) ==
    InsertAnswer(db_answers, st, user_id, question_id, answer, rating, submitted_at)

\* The upsert of one (user, question): look up, then update in place or insert.
\* The set of sessions it can end in (empty when the id sequence of the model
\* is exhausted).
Upsert(db_answers, st, user_id, question_id, answer, rating, submitted_at) ==
    LET found == ExistingAnswers(db_answers, st, user_id, question_id)
    IN  IF found # {}
        THEN {[SetRow(db_answers, st, id,
                      UpdateExisting(SessionView(db_answers, st)[id],
                                     answer, rating, submitted_at))
                 EXCEPT !.saved = Append(st.saved, [question_id |-> question_id,
                                                    answer_id |-> id])]
              : id \in found}
        ELSE InsertAnswer(db_answers, st, user_id, question_id, answer, rating,
                          submitted_at)

\* Mutant: the question is not validated; every tuple is upserted.
HandleTupleUnvalidated(db_questions, db_answers, st, user_id, t, tnow, py311) ==
    Upsert(db_answers, st, user_id, t.question_id, t.answer, t.rating,
           ParseSubmittedAt(t.submitted_at, tnow, py311))

\* One iteration of the loop of submit_answers over `answers`.
HandleTuple(db_questions, db_answers, st, user_id, t, tnow, py311) ==
    IF t.question_id \notin DOMAIN db_questions
    THEN {st}                                   \* continue
    ELSE Upsert(db_answers, st, user_id, t.question_id, t.answer, t.rating,
                ParseSubmittedAt(t.submitted_at, tnow, py311))

\* The whole loop, run against an unchanging committed store.
RECURSIVE RunBatch(_, _, _, _, _, _, _)
RunBatch(db_questions, db_answers, st, user_id, batch, tnow, py311) ==
    IF batch = <<>> THEN {st}
    ELSE UNION {RunBatch(db_questions, db_answers, st2, user_id, Tail(batch), tnow, py311)
                : st2 \in HandleTuple(db_questions, db_answers, st, user_id,
                                      Head(batch), tnow, py311)}

\* db.commit(): the pending UPDATEs and the INSERTs become visible together.
\* The UPDATE of a loaded row sets the columns whose value differs from the
\* value read (the unit of work writes net changes only).
CommitAnswers(db_answers, st) ==
    [id \in DOMAIN db_answers \cup DOMAIN st.new |->
        IF id \in DOMAIN st.new THEN st.new[id]
        ELSE IF id \in DOMAIN st.dirty
        THEN [col \in DOMAIN db_answers[id] |->
                 IF st.dirty[id][col] # st.loaded[id][col] THEN st.dirty[id][col]
                 ELSE db_answers[id][col]]
        ELSE db_answers[id]]


(***************************************************************************)
(* Requests handled one at a time: each action is one whole handler.       *)
(***************************************************************************)
\* The authenticated identity get_current_user hands to a handler.
Identities ==
    [kind : {"Profile"}, id : DOMAIN profiles] \cup [kind : {"User"}, id : DOMAIN users]

IdentityError == "Please use Profile account to submit answers"

\* Rows of a table other than those selected.
Without(table, gone) == [id \in DOMAIN table \ gone |-> table[id]]

\* Mutant: the identity check is missing; a User's integer id is used as user_id.
submit_answers_coerced(current_user, batch, py311) ==
    /\ \E st \in RunBatch(questions, answers, NewSession(seq.answers),
                          current_user.id, batch, clock, py311) :
           /\ answers' = CommitAnswers(answers, st)
           /\ seq' = [seq EXCEPT !.answers = st.nextval]
           /\ response' = [op |-> "submit_answers", status |-> 200,
                           user |-> current_user, request |-> batch,
                           answers |-> st.saved, at |-> clock]
    /\ UNCHANGED <<companies, sections, questions, profiles, users, clock,
                   reset_codes, admin_login, startup, sessions>>

\* POST /user/submit-answer/
submit_answers(current_user, batch, py311) ==
    /\ IF current_user.kind = "User"
       THEN /\ response' = [op |-> "submit_answers", status |-> 400,
                            detail |-> IdentityError,
                            user |-> current_user, request |-> batch]
            /\ UNCHANGED <<answers, seq>>
       ELSE \E st \in RunBatch(questions, answers, NewSession(seq.answers),
                               current_user.id, batch, clock, py311) :
                /\ answers' = CommitAnswers(answers, st)
                /\ seq' = [seq EXCEPT !.answers = st.nextval]
                /\ response' = [op |-> "submit_answers", status |-> 200,
                                user |-> current_user, request |-> batch,
                                answers |-> st.saved, at |-> clock]
    /\ UNCHANGED <<companies, sections, questions, profiles, users, clock,
                   reset_codes, admin_login, startup, sessions>>

\* Mutant: an answer is accepted only for a question of a section of the
\* submitter's company or of a global section.
submit_answer_visible_only(question_id, body, current_user) ==
    LET company_id == IF current_user.kind = "Profile"
                      THEN profiles[current_user.id].company_id ELSE None
        visible == /\ question_id \in DOMAIN questions
                   /\ questions[question_id].section_id # None
                   /\ Get(questions[question_id].section_id) \in DOMAIN sections
                   /\ sections[Get(questions[question_id].section_id)].company_id
                         \in {None, company_id}
    IN  /\ IF ~visible
           THEN /\ response' = [op |-> "submit_answer", status |-> 404,
                                detail |-> "Question not found",
                                user |-> current_user, question_id |-> question_id,
                                request |-> body]
                /\ UNCHANGED <<answers, seq>>
           ELSE IF current_user.kind = "User"
           THEN /\ response' = [op |-> "submit_answer", status |-> 400,
                                detail |-> IdentityError,
                                user |-> current_user, question_id |-> question_id,
                                request |-> body]
                /\ UNCHANGED <<answers, seq>>
           ELSE \E st \in Upsert(answers, NewSession(seq.answers), current_user.id,
                                 question_id, body.answer, body.rating,
                                 Some(now(clock))) :
                    /\ answers' = CommitAnswers(answers, st)
                    /\ seq' = [seq EXCEPT !.answers = st.nextval]
                    /\ response' = [op |-> "submit_answer", status |-> 200,
                                    user |-> current_user, question_id |-> question_id,
                                    request |-> body,
                                    answer_id |-> st.saved[1].answer_id,
                                    rating |-> answers'[st.saved[1].answer_id].rating,
                                    submitted_at |->
                                        answers'[st.saved[1].answer_id].submitted_at,
                                    at |-> clock]
        /\ UNCHANGED <<companies, sections, questions, profiles, users, clock,
                       reset_codes, admin_login, startup, sessions>>

\* POST /user/submit-answer/{question_id}/
submit_answer(question_id, body, current_user) ==
    /\ IF question_id \notin DOMAIN questions
       THEN /\ response' = [op |-> "submit_answer", status |-> 404,
                            detail |-> "Question not found",
                            user |-> current_user, question_id |-> question_id,
                            request |-> body]
            /\ UNCHANGED <<answers, seq>>
       ELSE IF current_user.kind = "User"
       THEN /\ response' = [op |-> "submit_answer", status |-> 400,
                            detail |-> IdentityError,
                            user |-> current_user, question_id |-> question_id,
                            request |-> body]
            /\ UNCHANGED <<answers, seq>>
       ELSE \E st \in Upsert(answers, NewSession(seq.answers), current_user.id,
                             question_id, body.answer, body.rating, Some(now(clock))) :
                /\ answers' = CommitAnswers(answers, st)
                /\ seq' = [seq EXCEPT !.answers = st.nextval]
                /\ response' = [op |-> "submit_answer", status |-> 200,
                                user |-> current_user, question_id |-> question_id,
                                request |-> body,
                                answer_id |-> st.saved[1].answer_id,
                                rating |-> answers'[st.saved[1].answer_id].rating,
                                submitted_at |->
                                    answers'[st.saved[1].answer_id].submitted_at,
                                at |-> clock]
    /\ UNCHANGED <<companies, sections, questions, profiles, users, clock,
                   reset_codes, admin_login, startup, sessions>>

\* GET /admin/generate-feedback/{answer_id}; `generated` is whether the
\* text-generation call returned.
generate_feedback_for_answer(answer_id, generated) ==
    /\ IF answer_id \notin DOMAIN answers
       THEN /\ response' = [op |-> "generate_feedback_for_answer", status |-> 404,
                            detail |-> "Answer not found"]
            /\ UNCHANGED answers
       ELSE IF ~generated
       THEN /\ response' = [op |-> "generate_feedback_for_answer", status |-> 500,
                            detail |-> "Error generating feedback"]
            /\ UNCHANGED answers
       ELSE /\ answers' = [answers EXCEPT ![answer_id].feedback = Some("feedback"),
                                          ![answer_id].feedback_generated = TRUE]
            /\ response' = [op |-> "generate_feedback_for_answer", status |-> 200,
                            answer_id |-> answer_id]
    /\ UNCHANGED <<companies, sections, questions, profiles, users, seq, clock,
                   reset_codes, admin_login, startup, sessions>>

\* POST /admin/create-question/ ; questions.section_id is a foreign key to
\* sections.id, so the INSERT of an unknown section_id fails in the store.
create_question(section_id) ==
    /\ seq.questions <= MaxQuestionId
    /\ IF section_id # None /\ Get(section_id) \notin DOMAIN sections
       THEN /\ response' = [op |-> "create_question", status |-> 500,
                            detail |-> "IntegrityError"]
            /\ UNCHANGED <<questions, seq>>
       ELSE /\ questions' = (seq.questions :> [section_id |-> section_id,
                                                question |-> "q"]) @@ questions
            /\ seq' = [seq EXCEPT !.questions = seq.questions + 1]
            /\ response' = [op |-> "create_question", status |-> 200,
                            question_id |-> seq.questions]
    /\ UNCHANGED <<companies, sections, profiles, users, answers, clock,
                   reset_codes, admin_login, startup, sessions>>

\* Mutant: the question is deleted, its answers are left behind.
delete_question_only(question_id) ==
    /\ IF question_id \notin DOMAIN questions
       THEN /\ response' = [op |-> "delete_question", status |-> 404,
                            detail |-> "Question not found"]
            /\ UNCHANGED <<questions, answers>>
       ELSE /\ answers' = answers
            /\ questions' = Without(questions, {question_id})
            /\ response' = [op |-> "delete_question", status |-> 200,
                            question_id |-> question_id,
                            answers_deleted |-> 0]
    /\ UNCHANGED <<companies, sections, profiles, users, seq, clock,
                   reset_codes, admin_login, startup, sessions>>

\* DELETE /admin/delete-question/{question_id}
delete_question(question_id) ==
    /\ IF question_id \notin DOMAIN questions
       THEN /\ response' = [op |-> "delete_question", status |-> 404,
                            detail |-> "Question not found"]
            /\ UNCHANGED <<questions, answers>>
       ELSE LET gone == {id \in DOMAIN answers : answers[id].question_id = question_id}
            IN  /\ answers' = Without(answers, gone)
                /\ questions' = Without(questions, {question_id})
                /\ response' = [op |-> "delete_question", status |-> 200,
                                question_id |-> question_id,
                                answers_deleted |-> Cardinality(gone)]
    /\ UNCHANGED <<companies, sections, profiles, users, seq, clock,
                   reset_codes, admin_login, startup, sessions>>

\* uuid.UUID(user_id): Some(uuid), or None for ValueError. A path parameter
\* is <<"uuid", n>> (the text of UUID n) or <<"junk">>.
UUID(user_id) == IF user_id[1] = "uuid" THEN Some(user_id[2]) ELSE None

\* DELETE /admin/delete-user/{user_id}
delete_user(user_id) ==
    /\ IF UUID(user_id) = None
       THEN /\ response' = [op |-> "delete_user", status |-> 400,
                            detail |-> "Invalid user ID format"]
            /\ UNCHANGED <<profiles, answers>>
       ELSE IF Get(UUID(user_id)) \notin DOMAIN profiles
       THEN /\ response' = [op |-> "delete_user", status |-> 404,
                            detail |-> "User not found"]
            /\ UNCHANGED <<profiles, answers>>
       ELSE LET user_uuid == Get(UUID(user_id))
                gone == {id \in DOMAIN answers : answers[id].user_id = user_uuid}
            IN  /\ answers' = Without(answers, gone)
                /\ profiles' = Without(profiles, {user_uuid})
                /\ response' = [op |-> "delete_user", status |-> 200,
                                user_id |-> user_uuid,
                                answers_deleted |-> Cardinality(gone)]
    /\ UNCHANGED <<companies, sections, questions, users, seq, clock,
                   reset_codes, admin_login, startup, sessions>>

\* POST /user/signup ; uuid4() returns an id no profile has.
signup(email, company_id) ==
    /\ IF \E p \in DOMAIN profiles : profiles[p].email = email
       THEN /\ response' = [op |-> "signup", status |-> 400,
                            detail |-> "Email already registered"]
            /\ UNCHANGED profiles
       ELSE IF company_id # None /\ Get(company_id) \notin DOMAIN companies
       THEN /\ response' = [op |-> "signup", status |-> 404,
                            detail |-> "Company not found"]
            /\ UNCHANGED profiles
       ELSE \E profile_id \in (1..MaxProfiles) \ DOMAIN profiles :
                /\ profiles' = (profile_id :> [email |-> email,
                                               company_id |-> company_id]) @@ profiles
                /\ response' = [op |-> "signup", status |-> 200,
                                profile_id |-> profile_id]
    /\ UNCHANGED <<companies, sections, questions, users, answers, seq, clock,
                   reset_codes, admin_login, startup, sessions>>

\* Time passes on the server.
Tick ==
    /\ clock < MaxClock
    /\ clock' = clock + 1
    /\ UNCHANGED <<store, seq, sessions, reset_codes, admin_login, startup, response>>

\* No response is pending: the server is free to handle the next request.
NoResponse == [op |-> "none", status |-> 0]
Idle == response = NoResponse

\* The pending response is sent to the client.
Reply ==
    /\ ~Idle
    /\ response' = NoResponse
    /\ UNCHANGED <<store, seq, clock,
                   reset_codes, admin_login, startup, sessions>>


(***************************************************************************)
(* Initial state: the tables as create_all() leaves them, plus one account *)
(* of the legacy integer-keyed users table (no handler creates those).     *)
(***************************************************************************)
Emails == {"a@x", "b@x"}

Init ==
    /\ companies = EmptyTable
    /\ sections = EmptyTable
    /\ questions = EmptyTable
    /\ profiles = EmptyTable
    /\ users = (1 :> [email |-> "staff@x", hashed_password |-> StaffHash,
                      company_id |-> None])
    /\ answers = EmptyTable
    /\ seq = [companies |-> 1, sections |-> 1, questions |-> 1, answers |-> 1]
    /\ clock = 0
    /\ Started
    /\ sessions = EmptyTable
    /\ response = NoResponse

\* Sequences over S of length at most n.
SeqUpTo(S, n) == UNION {[1..k -> S] : k \in 0..n}

UserIdParams == {<<"uuid", n>> : n \in 1..MaxProfiles} \cup {<<"junk">>}

(***************************************************************************)
(* Spec: the answer upsert engine, requests handled one after the other,   *)
(* with every administrative delete; all answers carry the same content.   *)
(***************************************************************************)
PlainTuples ==
    [question_id : 1..MaxQuestionId, answer : {"ok"}, rating : {Some(2)},
     submitted_at : {None}]

PlainBodies == [answer : {"ok"}, rating : {Some(2)}]

Next ==
    \/ Idle /\ \E u \in Identities, batch \in SeqUpTo(PlainTuples, MaxBatch) :
                  submit_answers(u, batch, TRUE)
    \/ Idle /\ \E u \in Identities, q \in 1..MaxQuestionId, body \in PlainBodies :
                  submit_answer(q, body, u)
    \/ Idle /\ create_question(None)
    \/ Idle /\ \E q \in 1..MaxQuestionId : delete_question(q)
    \/ Idle /\ \E user_id \in UserIdParams : delete_user(user_id)
    \/ Idle /\ \E email \in Emails : signup(email, None)
    \/ Reply

Spec == Init /\ [][Next]_vars

\* The last request was a submission.
Submitted == response.op \in {"submit_answers", "submit_answer"}

\* The stored answers of a (user, question) pair.
AnswersOf(user_id, question_id) ==
    {id \in DOMAIN answers : /\ answers[id].user_id = user_id
                             /\ answers[id].question_id = question_id}

(***************************************************************************)
(* C1: after any sequence of sequentially handled submit_answers,          *)
(* submit_answer, delete_question and delete_user requests, the store      *)
(* holds at most one Answer for every (user_id, question_id) pair.         *)
(***************************************************************************)
C1_AtMostOneAnswerPerPair ==
    \A a, b \in DOMAIN answers :
        (/\ answers[a].user_id = answers[b].user_id
         /\ answers[a].question_id = answers[b].question_id) => a = b

\* A batch naming an existing question twice was committed after a delete.
C1_Witness ==
    /\ response.op = "submit_answers" /\ response.status = 200
    /\ Len(response.request) = 2
    /\ response.request[1].question_id = response.request[2].question_id
    /\ response.request[1].question_id \in DOMAIN questions
    /\ Cardinality(DOMAIN answers) = 1
    /\ seq.questions > Cardinality(DOMAIN questions) + 1

(***************************************************************************)
(* C5: a batch tuple whose question_id names no Question is skipped        *)
(* without aborting the batch: the result lists, in input order, one       *)
(* (question_id, answer_id) pair per tuple whose question exists, each     *)
(* answer_id being the id of the stored Answer of (user, question_id);     *)
(* the tuples of existing questions are all persisted.                     *)
(***************************************************************************)
\* The tuples of a request whose question exists, in input order.
AcceptedTuples(request) == SelectSeq(request, LAMBDA t : t.question_id \in DOMAIN questions)

C5_InvalidQuestionSkipped ==
    (response.op = "submit_answers" /\ response.user.kind = "Profile") =>
        LET accepted == AcceptedTuples(response.request)
            saved    == response.answers
        IN  /\ response.status = 200
            /\ Len(saved) = Len(accepted)
            /\ \A k \in 1..Len(saved) :
                  /\ saved[k].question_id = accepted[k].question_id
                  /\ AnswersOf(response.user.id, saved[k].question_id)
                         = {saved[k].answer_id}
            /\ \A id \in DOMAIN answers :
                  answers[id].user_id = response.user.id =>
                      answers[id].question_id \in DOMAIN questions

\* Two tuples, the first names no question: one answer persisted, one pair.
C5_Witness ==
    /\ response.op = "submit_answers" /\ response.status = 200
    /\ Len(response.request) = 2
    /\ response.request[1].question_id \notin DOMAIN questions
    /\ response.request[2].question_id \in DOMAIN questions
    /\ Len(response.answers) = 1
    /\ Cardinality(AnswersOf(response.user.id, response.request[2].question_id)) = 1
    /\ Cardinality({id \in DOMAIN answers : answers[id].user_id = response.user.id}) = 1

(***************************************************************************)
(* C6 (as claimed): a submission made by an integer-keyed User identity is *)
(* always rejected with the identity error and leaves the Answer table     *)
(* unchanged, whatever questions it names.                                 *)
(***************************************************************************)
C6_UserAlwaysIdentityError ==
    [][(Idle /\ response'.op \in {"submit_answers", "submit_answer"}
             /\ response'.user.kind = "User")
         => (/\ response'.status = 400
             /\ response'.detail = IdentityError
             /\ answers' = answers)]_vars

(***************************************************************************)
(* C6 (amended): a submission made by an integer-keyed User identity is    *)
(* always rejected and leaves the Answer table unchanged; the error is the *)
(* identity error for submit_answers, and for submit_answer when the       *)
(* question exists; submit_answer naming an unknown question is rejected   *)
(* with "Question not found" instead.                                      *)
(***************************************************************************)
C6_UserAlwaysRejected ==
    [][(Idle /\ response'.op \in {"submit_answers", "submit_answer"}
             /\ response'.user.kind = "User")
         => (/\ answers' = answers
             /\ IF response'.op = "submit_answer"
                   /\ response'.question_id \notin DOMAIN questions
                THEN response'.status = 404 /\ response'.detail = "Question not found"
                ELSE response'.status = 400 /\ response'.detail = IdentityError)]_vars

\* A User's batch naming an existing, answered question was rejected.
C6_Witness ==
    /\ response.op = "submit_answers" /\ response.user.kind = "User"
    /\ response.status = 400
    /\ Len(response.request) > 0
    /\ response.request[1].question_id \in DOMAIN questions
    /\ AnswersOf(1, response.request[1].question_id) # {}


(***************************************************************************)
(* SpecContent: one Profile resubmitting answers of differing content      *)
(* while the server clock advances.                                        *)
(***************************************************************************)
ProfileIdentities == [kind : {"Profile"}, id : DOMAIN profiles]

\* The two contents of the run differ in text and in rating.
Contents == {[answer |-> "ok", rating |-> Some(2)], [answer |-> "", rating |-> None]}

ContentTuples ==
    {[question_id |-> q, answer |-> c.answer, rating |-> c.rating, submitted_at |-> None]
        : q \in 1..MaxQuestionId, c \in Contents}

NextContent ==
    \/ Idle /\ DOMAIN profiles = {} /\ signup("a@x", None)
    \/ Idle /\ create_question(None)
    \/ Idle /\ \E u \in ProfileIdentities, batch \in SeqUpTo(ContentTuples, MaxBatch) :
                  submit_answers(u, batch, TRUE)
    \/ Idle /\ \E u \in ProfileIdentities, q \in 1..MaxQuestionId, body \in Contents :
                  submit_answer(q, body, u)
    \/ Idle /\ Tick
    \/ Reply

SpecContent == Init /\ [][NextContent]_vars

(***************************************************************************)
(* C2: when the same Profile submits for the same existing question again  *)
(* with different content (in a later request, or later inside one batch), *)
(* exactly one Answer exists for the pair afterwards and its answer text,  *)
(* rating and submitted_at are those of the later submission.              *)
(***************************************************************************)
\* The only row of (user, question) holds this content, stamped at time t.
HoldsLatest(user_id, question_id, answer, rating, t) ==
    /\ Cardinality(AnswersOf(user_id, question_id)) = 1
    /\ \A id \in AnswersOf(user_id, question_id) :
          /\ answers[id].answer = answer
          /\ answers[id].rating = rating
          /\ answers[id].submitted_at = Some(now(t))

C2_LatestContentWins ==
    (Submitted /\ response.status = 200) =>
        IF response.op = "submit_answer"
        THEN HoldsLatest(response.user.id, response.question_id,
                         response.request.answer, response.request.rating, response.at)
        ELSE \A k \in 1..Len(response.request) :
                LET t == response.request[k]
                IN  (/\ t.question_id \in DOMAIN questions
                     /\ \A j \in (k + 1)..Len(response.request) :
                           response.request[j].question_id # t.question_id)
                    => HoldsLatest(response.user.id, t.question_id, t.answer, t.rating,
                                   response.at)

\* A batch submitted the same question twice with different text and rating,
\* after the clock had advanced past an earlier submission of that question.
C2_Witness ==
    /\ response.op = "submit_answers" /\ response.status = 200
    /\ Len(response.request) = 2
    /\ response.request[1].question_id = response.request[2].question_id
    /\ response.request[1].answer # response.request[2].answer
    /\ response.request[1].rating # response.request[2].rating
    /\ Len(response.answers) = 2
    /\ response.answers[1].answer_id = 1
    /\ seq.answers = 3
    /\ response.at = 1

(***************************************************************************)
(* SpecFrame: one Profile resubmitting answers that have feedback.         *)
(***************************************************************************)
NextFrame ==
    \/ Idle /\ DOMAIN profiles = {} /\ signup("a@x", None)
    \/ Idle /\ create_question(None)
    \/ Idle /\ \E u \in ProfileIdentities, batch \in SeqUpTo(ContentTuples, MaxBatch) :
                  submit_answers(u, batch, TRUE)
    \/ Idle /\ \E u \in ProfileIdentities, q \in 1..MaxQuestionId, body \in Contents :
                  submit_answer(q, body, u)
    \/ Idle /\ \E a \in 1..MaxAnswerId, generated \in BOOLEAN :
                  generate_feedback_for_answer(a, generated)
    \/ Reply

SpecFrame == Init /\ [][NextFrame]_vars

(***************************************************************************)
(* C7: an upsert that finds an existing Answer changes only answer, rating *)
(* and submitted_at: the Answer's id, question_id, user_id, feedback and   *)
(* feedback_generated are unchanged; an upsert that finds none creates an  *)
(* Answer with feedback = null and feedback_generated = false.             *)
(***************************************************************************)
C7_UpsertFrame ==
    [][(Idle /\ response'.op \in {"submit_answers", "submit_answer"}
             /\ response'.status = 200)
         => (/\ \A id \in DOMAIN answers :
                   /\ id \in DOMAIN answers'
                   /\ answers'[id].question_id = answers[id].question_id
                   /\ answers'[id].user_id = answers[id].user_id
                   /\ answers'[id].feedback = answers[id].feedback
                   /\ answers'[id].feedback_generated = answers[id].feedback_generated
             /\ \A id \in DOMAIN answers' \ DOMAIN answers :
                   /\ answers'[id].feedback = None
                   /\ answers'[id].feedback_generated = FALSE)]_vars

\* A submission has just overwritten an answer that carries feedback, and
\* created another one beside it.
C7_Witness ==
    /\ response.op = "submit_answers" /\ response.status = 200
    /\ Len(response.answers) = 2
    /\ answers[response.answers[1].answer_id].feedback # None
    /\ answers[response.answers[1].answer_id].feedback_generated
    /\ answers[response.answers[1].answer_id].answer = ""
    /\ response.answers[2].answer_id = seq.answers - 1
    /\ answers[response.answers[2].answer_id].feedback = None

(***************************************************************************)
(* SpecStamp: one Profile submitting batches for one question with         *)
(* well-formed, malformed, empty and absent submitted_at strings.          *)
(***************************************************************************)
StampStrings ==
    {<<>>, <<"D">>, <<"D", "+00:00">>, <<"D", "Z">>, <<"x">>, <<"D", "x">>, <<"Z">>}

StampTuples ==
    [question_id : {1}, answer : {"ok"}, rating : {Some(2)},
     submitted_at : {None} \cup {Some(str) : str \in StampStrings}]

NextStamp ==
    \/ Idle /\ DOMAIN profiles = {} /\ signup("a@x", None)
    \/ Idle /\ seq.questions = 1 /\ create_question(None)
    \/ Idle /\ \E u \in ProfileIdentities, batch \in SeqUpTo(StampTuples, MaxBatch),
                  py311 \in BOOLEAN :
                  submit_answers(u, batch, py311)
    \/ Idle /\ Tick
    \/ Reply

SpecStamp == Init /\ [][NextStamp]_vars

(***************************************************************************)
(* C8: a batch tuple whose submitted_at cannot be parsed as a timestamp    *)
(* never fails the request: the tuple is accepted like any other and its   *)
(* stored submitted_at is the server's current time; an absent             *)
(* submitted_at is likewise stored as the server's current time.           *)
(***************************************************************************)
\* The strings that are ISO-8601 timestamps (a trailing "Z" is UTC).
IsTimestamp(str) == str \in {<<"D">>, <<"D", "+00:00">>, <<"D", "Z">>}

C8_MalformedTimestampIsNow ==
    (response.op = "submit_answers" /\ response.user.kind = "Profile") =>
        /\ response.status = 200
        /\ Len(response.answers) = Len(AcceptedTuples(response.request))
        /\ \A k \in 1..Len(response.request) :
              LET t == response.request[k]
              IN  (/\ t.question_id \in DOMAIN questions
                   /\ \A j \in (k + 1)..Len(response.request) :
                         response.request[j].question_id # t.question_id
                   /\ (t.submitted_at = None \/ ~IsTimestamp(Get(t.submitted_at))))
                  => \A id \in AnswersOf(response.user.id, t.question_id) :
                        answers[id].submitted_at = Some(now(response.at))

\* A batch ending in "not-a-date" overwrote a client-stamped answer at time 1.
C8_Witness ==
    /\ response.op = "submit_answers" /\ response.status = 200
    /\ Len(response.request) = 2
    /\ response.request[1].submitted_at = Some(<<"D", "Z">>)
    /\ response.request[2].submitted_at = Some(<<"x">>)
    /\ Len(response.answers) = 2
    /\ \E id \in DOMAIN answers : answers[id].submitted_at = Some(now(1))


(***************************************************************************)
(* Completion accounting: GET /admin/get-users-by-company/{company_id}     *)
(***************************************************************************)
\* Mutant: global sections are not among the sections of a company.
CompanySectionsOwnOnly(company_id) ==
    {sid \in DOMAIN sections : sections[sid].company_id = Some(company_id)}

\* Sections of the company and global sections (company_id IS NULL).
CompanySections(company_id) ==
    {sid \in DOMAIN sections : \/ sections[sid].company_id = Some(company_id)
                               \/ sections[sid].company_id = None}

\* Question.section_id.in_(section_ids): a NULL section_id matches nothing.
CompanyQuestions(company_id) ==
    LET section_ids == CompanySections(company_id)
    IN  IF section_ids # {}
        THEN {q \in DOMAIN questions : /\ questions[q].section_id # None
                                       /\ Get(questions[q].section_id) \in section_ids}
        ELSE {}

\* db.query(UserAnswer).filter(UserAnswer.user_id == profile.id).all()
UserAnswers(profile_id) == {id \in DOMAIN answers : answers[id].user_id = profile_id}

\* Mutant: every answered question is counted, visible or not.
AnsweredCountAll(user_answers, company_questions) ==
    Cardinality({answers[id].question_id : id \in user_answers})

\* answered_count: the answered question ids that are among `questions`.
AnsweredCount(user_answers, company_questions) ==
    LET answered_question_ids == {answers[id].question_id : id \in user_answers}
    IN  Cardinality({qid \in answered_question_ids : qid \in company_questions})

\* Mutant: rating 0 counts as "can't answer" whatever the text.
IsCompleteZeroAnyText(row) ==
    LET has_rating == row.rating # None
        has_answer_text == row.answer # "" /\ strip(row.answer) # ""
    IN  (has_rating /\ Get(row.rating) = 0)
        \/ (has_rating /\ Get(row.rating) # 0 /\ has_answer_text)

\* is_complete of one answer.
IsComplete(row) ==
    LET has_rating == row.rating # None
        has_answer_text == row.answer # "" /\ strip(row.answer) # ""
        is_cant_answer == /\ has_rating
                          /\ Get(row.rating) = 0
                          /\ (row.answer = "" \/ strip(row.answer) = "")
    IN  is_cant_answer \/ (has_rating /\ Get(row.rating) # 0 /\ has_answer_text)

\* next((a for a in user_answers if a.question_id == question.id), None) for
\* every question: the functions question -> Optional answer the generator can
\* yield (user_answers comes in no stated order).
FirstAnswers(user_answers, company_questions) ==
    {first \in [company_questions -> {None} \cup {Some(id) : id \in user_answers}] :
        \A q \in company_questions :
            LET matching == {id \in user_answers : answers[id].question_id = q}
            IN  IF matching = {} THEN first[q] = None
                ELSE first[q] # None /\ Get(first[q]) \in matching}

\* The completely_answered flag after the loop over `questions`.
CompletelyAnswered(first, company_questions) ==
    \A q \in company_questions :
        first[q] # None /\ IsComplete(answers[Get(first[q])])

\* Python's round(x, 1) of x = num / den >= 0, in tenths (half to even).
RoundTenths(num, den) ==
    LET scaled == 10 * num
        quo == scaled \div den
        rem == scaled % den
    IN  IF 2 * rem < den THEN quo
        ELSE IF 2 * rem > den THEN quo + 1
        ELSE IF quo % 2 = 0 THEN quo ELSE quo + 1

\* completion_percentage, in tenths of a percent.
CompletionPercentage(answered_count, total_questions) ==
    IF total_questions > 0 THEN RoundTenths(100 * answered_count, total_questions)
    ELSE 0

\* Mutant: a profile without questions to answer is not completely answered.
UserRecordEmptyIncomplete(profile_id, first, company_questions) ==
    LET total_questions == Cardinality(company_questions)
        answered_count == AnsweredCount(UserAnswers(profile_id), company_questions)
    IN  [company_id |-> profiles[profile_id].company_id,
         total_questions |-> total_questions,
         answered_count |-> answered_count,
         completion_percentage |-> CompletionPercentage(answered_count, total_questions),
         completely_answered |-> /\ total_questions > 0
                                 /\ CompletelyAnswered(first, company_questions)
                                 /\ answered_count = total_questions]

\* The record appended to `result` for one profile.
UserRecord(profile_id, first, company_questions) ==
    LET total_questions == Cardinality(company_questions)
        answered_count == AnsweredCount(UserAnswers(profile_id), company_questions)
        completely_answered == CompletelyAnswered(first, company_questions)
    IN  [company_id |-> profiles[profile_id].company_id,
         total_questions |-> total_questions,
         answered_count |-> answered_count,
         completion_percentage |-> CompletionPercentage(answered_count, total_questions),
         completely_answered |-> completely_answered /\ answered_count = total_questions]

get_users_by_company(company_id) ==
    /\ IF company_id \notin DOMAIN companies
       THEN response' = [op |-> "get_users_by_company", status |-> 404,
                         detail |-> "Company not found"]
       ELSE LET company_profiles ==
                    {p \in DOMAIN profiles : profiles[p].company_id = Some(company_id)}
                company_questions == CompanyQuestions(company_id)
                firsts == UNION {FirstAnswers(UserAnswers(p), company_questions)
                                    : p \in company_profiles}
            IN  \E first \in [company_profiles -> firsts] :
                    /\ \A p \in company_profiles :
                          first[p] \in FirstAnswers(UserAnswers(p), company_questions)
                    /\ response' = [op |-> "get_users_by_company", status |-> 200,
                                    company_id |-> company_id,
                                    users |-> [p \in company_profiles |->
                                                 UserRecord(p, first[p],
                                                            company_questions)]]
    /\ UNCHANGED <<store, seq, clock,
                   reset_codes, admin_login, startup, sessions>>

(***************************************************************************)
(* SpecCompletion: the report over every survey of MaxSurvey questions.    *)
(* The store is drawn from the stores the handlers build: company 1 with   *)
(* its section 1, the global section 2, company 2 with its section 3, each *)
(* question in one of them, Profile 1 of company 1 with at                 *)
(* most one answer per question and Profile 2 of company 2 with none.      *)
(***************************************************************************)
CompletionContents ==
    {[answer |-> "",   rating |-> Some(0)],     \* "can't answer"
     [answer |-> " ",  rating |-> Some(0)],     \* the same, whitespace text
     [answer |-> "ok", rating |-> Some(0)],
     [answer |-> "ok", rating |-> Some(2)],     \* substantive
     [answer |-> "",   rating |-> Some(2)],
     [answer |-> "ok", rating |-> None]}

\* The answers of Profile 1: question q answered with content[q], or not at
\* all; the answer of question q has id q.
SurveyAnswers(content) ==
    [id \in {q \in DOMAIN content : content[q] # None} |->
        CreateAnswer(id, 1, Get(content[id]).answer, Get(content[id]).rating,
                     Some(now(0)))]

InitCompletion ==
    /\ companies = (1 :> [name |-> "acme"]) @@ (2 :> [name |-> "other"])
    /\ sections = (1 :> [company_id |-> Some(1), title |-> "t"])
                    @@ (2 :> [company_id |-> None, title |-> "t"])
                    @@ (3 :> [company_id |-> Some(2), title |-> "t"])
    /\ \E section_of \in [1..MaxSurvey -> {Some(1), Some(2), Some(3)}] :
          questions = [q \in 1..MaxSurvey |-> [section_id |-> section_of[q],
                                                question |-> "q"]]
    /\ profiles = (1 :> [email |-> "a@x", company_id |-> Some(1)])
                    @@ (2 :> [email |-> "b@x", company_id |-> Some(2)])
    /\ users = (1 :> [email |-> "staff@x", hashed_password |-> StaffHash,
                      company_id |-> None])
    /\ \E content \in [1..MaxSurvey ->
                          {None} \cup {Some(c) : c \in CompletionContents}] :
          answers = SurveyAnswers(content)
    /\ seq = [companies |-> 3, sections |-> 4, questions |-> MaxSurvey + 1,
              answers |-> MaxSurvey + 1]
    /\ clock = 0
    /\ Started
    /\ sessions = EmptyTable
    /\ response = NoResponse

NextCompletion ==
    \/ Idle /\ \E company_id \in 1..2 : get_users_by_company(company_id)
    \/ Reply

SpecCompletion == InitCompletion /\ [][NextCompletion]_vars

\* The last request was a report that succeeded.
Reported == response.op = "get_users_by_company" /\ response.status = 200

\* The questions visible to a company: those of its sections and of the
\* global sections.
Visible(company_id) ==
    {q \in DOMAIN questions :
        \E sid \in DOMAIN sections :
            /\ questions[q].section_id = Some(sid)
            /\ sections[sid].company_id \in {None, Some(company_id)}}

Blank(text) == text \in {"", " "}

CannotAnswer(row) == row.rating = Some(0) /\ Blank(row.answer)

Substantive(row) == row.rating # None /\ row.rating # Some(0) /\ ~Blank(row.answer)

(***************************************************************************)
(* C9: for every Profile of a company, get_users_by_company reports        *)
(* completely_answered = true iff every visible question has an Answer by  *)
(* that user that is cannot-answer (rating 0, text blank) or substantive   *)
(* (rating non-zero, text non-blank), and answered_count equals            *)
(* total_questions.                                                        *)
(***************************************************************************)
C9_CompletelyAnswered ==
    Reported =>
        /\ DOMAIN response.users =
              {p \in DOMAIN profiles : profiles[p].company_id = Some(response.company_id)}
        /\ \A p \in DOMAIN response.users :
              response.users[p].completely_answered
                <=> (/\ \A q \in Visible(response.company_id) :
                           \E id \in AnswersOf(p, q) :
                               CannotAnswer(answers[id]) \/ Substantive(answers[id])
                     /\ response.users[p].answered_count
                           = response.users[p].total_questions)

\* Three visible questions: two answered substantively, the third marked
\* "can't answer"; the user is reported complete at 100.0 percent.
C9_Witness ==
    /\ Reported
    /\ response.company_id = 1
    /\ response.users[1].total_questions = 3
    /\ response.users[1].completely_answered
    /\ response.users[1].completion_percentage = 1000
    /\ Cardinality({id \in DOMAIN answers : CannotAnswer(answers[id])}) = 1
    /\ Cardinality({id \in DOMAIN answers : Substantive(answers[id])}) = 2

(***************************************************************************)
(* C10: answered_count is the number of visible questions the user has an  *)
(* Answer for (answers to other questions are not counted), so             *)
(* 0 <= answered_count <= total_questions; completion_percentage is        *)
(* 100 * answered_count / total_questions rounded to one decimal, and 0    *)
(* when total_questions = 0; a visible question without an Answer gives    *)
(* answered_count < total_questions and completely_answered = false.       *)
(***************************************************************************)
C10_AnsweredCountAndPercentage ==
    Reported =>
        \A p \in DOMAIN response.users :
            LET rec == response.users[p]
                visible == Visible(response.company_id)
                unanswered == {q \in visible : AnswersOf(p, q) = {}}
                \* |tenths / 10 - 100 * count / total| <= 1 / 20
                off == rec.completion_percentage * rec.total_questions
                         - 1000 * rec.answered_count
            IN  /\ rec.total_questions = Cardinality(visible)
                /\ rec.answered_count = Cardinality(visible \ unanswered)
                /\ 0 <= rec.answered_count /\ rec.answered_count <= rec.total_questions
                /\ IF rec.total_questions = 0 THEN rec.completion_percentage = 0
                   ELSE 2 * off <= rec.total_questions /\ -2 * off <= rec.total_questions
                /\ unanswered # {} =>
                      /\ rec.answered_count < rec.total_questions
                      /\ ~rec.completely_answered

\* Three visible questions, two of them answered: 66.7 percent, not complete.
C10_Witness ==
    /\ Reported
    /\ response.company_id = 1
    /\ response.users[1].total_questions = 3
    /\ response.users[1].answered_count = 2
    /\ response.users[1].completion_percentage = 667
    /\ ~response.users[1].completely_answered

(***************************************************************************)
(* C28: for a Profile whose company has no question to answer              *)
(* (total_questions = 0) the report holds answered_count = 0,              *)
(* completion_percentage = 0 and completely_answered = true, whatever      *)
(* answers the Profile has given to other questions.                       *)
(***************************************************************************)
C28_NoQuestionsIsComplete ==
    Reported =>
        \A p \in DOMAIN response.users :
            response.users[p].total_questions = 0 =>
                /\ response.users[p].answered_count = 0
                /\ response.users[p].completion_percentage = 0
                /\ response.users[p].completely_answered

\* Every question is in the section of company 2; Profile 1 of company 1
\* has answered all of them, one without rating, and is reported with no
\* question, no answer counted, 0 percent and completely answered.
C28_Witness ==
    /\ Reported /\ response.company_id = 1
    /\ response.users[1].total_questions = 0
    /\ response.users[1].completely_answered
    /\ Cardinality(UserAnswers(1)) = MaxSurvey
    /\ \E id \in UserAnswers(1) : answers[id].rating = None

(***************************************************************************)
(* Overlapping requests.  Every request has its own Session from get_db()  *)
(* and runs submit_answers one loop iteration at a time; the sessions      *)
(* meet in the committed tables only.  sessions[r] is request r:           *)
(*   user_id, batch  the arguments of the handler                          *)
(*   i               the index of the next tuple of the loop               *)
(*   st              its Session                                           *)
(*   pc              "run", "done" (committed) or "failed" (closed without *)
(*                   a commit)                                             *)
(*   looked          question -> how many requests had committed when the  *)
(*                   answer of that question was looked up                 *)
(*   committed_at    its place in the order of commits (0: none)           *)
(***************************************************************************)
\* Requests that have committed.
Committed == {r \in DOMAIN sessions : sessions[r].pc = "done"}

\* get_db() opens the Session of a new request of a Profile.
get_db(user_id, batch) ==
    LET r == Cardinality(DOMAIN sessions) + 1
    IN  /\ r <= MaxRequests
        /\ sessions' = sessions @@
              (r :> [user_id |-> user_id, batch |-> batch, i |-> 1,
                     st |-> NewSession(seq.answers), pc |-> "run",
                     looked |-> EmptyTable, committed_at |-> 0])
        /\ UNCHANGED <<store, seq, clock,
                       reset_codes, admin_login, startup, response>>

\* Mutant: every iteration commits what it wrote (an autocommit Session).
submit_answers_iteration_autocommit(r) ==
    LET s == sessions[r]
        t == s.batch[s.i]
    IN  /\ s.pc = "run" /\ s.i <= Len(s.batch)
        /\ \E st \in HandleTuple(questions, answers,
                                 [s.st EXCEPT !.nextval = seq.answers],
                                 s.user_id, t, clock, TRUE) :
              /\ sessions' = [sessions EXCEPT
                                ![r].st = st, ![r].i = s.i + 1,
                                ![r].looked = (t.question_id :> Cardinality(Committed))
                                                @@ s.looked]
              /\ seq' = [seq EXCEPT !.answers = st.nextval]
              /\ answers' = CommitAnswers(answers, st)
        /\ UNCHANGED <<companies, sections, questions, profiles, users, clock,
                       reset_codes, admin_login, startup, response>>

\* One iteration of the loop of submit_answers in request r.  Its queries
\* see the committed rows and the request's own writes; an INSERT draws its
\* id from the sequence, which is shared and not transactional.
submit_answers_iteration(r) ==
    LET s == sessions[r]
        t == s.batch[s.i]
    IN  /\ s.pc = "run" /\ s.i <= Len(s.batch)
        /\ \E st \in HandleTuple(questions, answers,
                                 [s.st EXCEPT !.nextval = seq.answers],
                                 s.user_id, t, clock, TRUE) :
              /\ sessions' = [sessions EXCEPT
                                ![r].st = st, ![r].i = s.i + 1,
                                ![r].looked = (t.question_id :> Cardinality(Committed))
                                                @@ s.looked]
              /\ seq' = [seq EXCEPT !.answers = st.nextval]
        /\ UNCHANGED <<store, clock,
                       reset_codes, admin_login, startup, response>>

\* db.commit() after the loop; the reply carries sessions[r].st.saved.
submit_answers_commit(r) ==
    LET s == sessions[r]
    IN  /\ s.pc = "run" /\ s.i > Len(s.batch)
        /\ answers' = CommitAnswers(answers, s.st)
        /\ sessions' = [sessions EXCEPT ![r].pc = "done",
                                        ![r].committed_at = Cardinality(Committed) + 1]
        /\ UNCHANGED <<companies, sections, questions, profiles, users, seq, clock,
                       reset_codes, admin_login, startup,
                       response>>

\* A statement of request r raises (the connection is lost, a timeout): the
\* exception leaves the handler and get_db() closes the Session, which rolls
\* its transaction back.
db_close(r) ==
    /\ sessions[r].pc = "run"
    /\ sessions' = [sessions EXCEPT ![r].pc = "failed"]
    /\ UNCHANGED <<store, seq, clock,
                   reset_codes, admin_login, startup, response>>

(***************************************************************************)
(* SpecConc: up to MaxRequests overlapping batch submissions of Profile 1  *)
(* over questions 1 and 2 (question 3 does not exist); the Profile has no  *)
(* answer yet, or has answered question 1 before.                          *)
(***************************************************************************)
ConcContents == {[answer |-> "a", rating |-> Some(2)], [answer |-> "b", rating |-> Some(1)]}

ConcBatches ==
    {[k \in DOMAIN qs |-> [question_id |-> qs[k], answer |-> c.answer,
                           rating |-> c.rating, submitted_at |-> None]]
        : qs \in {<<1>>, <<1, 2>>, <<3, 1>>}, c \in ConcContents}

InitConc ==
    /\ companies = EmptyTable
    /\ sections = EmptyTable
    /\ questions = (1 :> [section_id |-> None, question |-> "q"])
                     @@ (2 :> [section_id |-> None, question |-> "q"])
    /\ profiles = (1 :> [email |-> "a@x", company_id |-> None])
    /\ users = (1 :> [email |-> "staff@x", hashed_password |-> StaffHash,
                      company_id |-> None])
    /\ answers \in {EmptyTable,
                    (1 :> CreateAnswer(1, 1, "old", Some(1), Some(now(0))))}
    /\ seq = [companies |-> 1, sections |-> 1, questions |-> 3,
              answers |-> Cardinality(DOMAIN answers) + 1]
    /\ clock = 0
    /\ Started
    /\ sessions = EmptyTable
    /\ response = NoResponse

NextConc ==
    \/ \E batch \in ConcBatches : get_db(1, batch)
    \/ \E r \in DOMAIN sessions : submit_answers_iteration(r)
    \/ \E r \in DOMAIN sessions : submit_answers_commit(r)
    \/ \E r \in DOMAIN sessions : db_close(r)

SpecConc == InitConc /\ [][NextConc]_vars

\* The tuples of request r whose question exists, in order.
Accepted(r) == AcceptedTuples(sessions[r].batch)

\* Request r submitted an answer to question q.
Submits(r, q) == \E k \in DOMAIN Accepted(r) : Accepted(r)[k].question_id = q

\* r1 and r2 both committed a submission for question q, and each looked the
\* answer up before the other committed.
Overlap(r1, r2, q) ==
    /\ r1 # r2
    /\ {r1, r2} \subseteq Committed
    /\ Submits(r1, q) /\ Submits(r2, q)
    /\ sessions[r1].looked[q] < sessions[r2].committed_at
    /\ sessions[r2].looked[q] < sessions[r1].committed_at

\* Request r is the last to have committed a submission for question q.
LastWriter(r, q) ==
    /\ r \in Committed /\ Submits(r, q)
    /\ \A r3 \in Committed : Submits(r3, q) =>
          sessions[r3].committed_at <= sessions[r].committed_at

(***************************************************************************)
(* C3: when two submissions for the same (user, question) overlap (each    *)
(* looks the answer up before the other commits), then after both have     *)
(* committed the store holds one Answer for the pair, with the content of  *)
(* the request that committed last.                                        *)
(***************************************************************************)
C3_LastWriteWins ==
    \A r1, r2 \in DOMAIN sessions : \A q \in DOMAIN questions :
        (Overlap(r1, r2, q) /\ LastWriter(r2, q)) =>
            /\ Cardinality(AnswersOf(sessions[r2].user_id, q)) = 1
            /\ \A id \in AnswersOf(sessions[r2].user_id, q) :
                  \A k \in DOMAIN Accepted(r2) :
                      Accepted(r2)[k].question_id = q =>
                          /\ answers[id].answer = Accepted(r2)[k].answer
                          /\ answers[id].rating = Accepted(r2)[k].rating

(***************************************************************************)
(* C4: a batch commits atomically.  The committed answers change only in   *)
(* the commit step of one request; that step persists a row for every      *)
(* accepted tuple of the batch together (an inserted row as submitted, an  *)
(* updated row as submitted when nobody committed since it was read) and   *)
(* touches no other row; a request that fails before its commit leaves the *)
(* committed answers as they were, and none of its rows is ever stored.    *)
(***************************************************************************)
C4_BatchCommitsAtomically ==
    [][/\ answers' # answers =>
            \E r \in DOMAIN sessions :
                LET s == sessions[r]
                    saved == s.st.saved
                    ids == {saved[k].answer_id : k \in DOMAIN saved}
                IN  /\ s.pc = "run" /\ sessions'[r].pc = "done"
                    /\ Len(saved) = Len(Accepted(r))
                    /\ DOMAIN answers' = DOMAIN answers \cup ids
                    /\ \A id \in DOMAIN answers \ ids : answers'[id] = answers[id]
                    /\ \A k \in DOMAIN saved :
                          LET t == Accepted(r)[k]
                              row == answers'[saved[k].answer_id]
                          IN  /\ row.user_id = s.user_id
                              /\ row.question_id = t.question_id
                              /\ (\/ saved[k].answer_id \notin DOMAIN answers
                                  \/ s.looked[t.question_id] = Cardinality(Committed))
                                    => row.answer = t.answer /\ row.rating = t.rating
       /\ \A r \in DOMAIN sessions' :
            sessions'[r].pc # "done" =>
                /\ DOMAIN sessions'[r].st.new \cap DOMAIN answers' = {}
                /\ (r \in DOMAIN sessions /\ sessions[r].pc = "run"
                      /\ sessions'[r].pc = "failed") => answers' = answers
      ]_vars

\* A request has committed a batch of two answers while another request,
\* which had looked an answer up before that commit and has writes pending,
\* was closed without a commit.
C4_Witness ==
    \E r1, r2 \in DOMAIN sessions :
        /\ sessions[r1].pc = "done" /\ Len(sessions[r1].st.saved) = 2
        /\ sessions[r2].pc = "failed"
        /\ DOMAIN sessions[r2].st.new \cup DOMAIN sessions[r2].st.dirty # {}
        /\ \E q \in DOMAIN sessions[r2].looked :
              sessions[r2].looked[q] < sessions[r1].committed_at

(***************************************************************************)
(* The user's own view: GET /user/get-question/                            *)
(***************************************************************************)
\* company_id of the authenticated identity (User or Profile).
CompanyOf(current_user) ==
    IF current_user.kind = "User" THEN users[current_user.id].company_id
    ELSE profiles[current_user.id].company_id

\* Mutant: only the company's own sections, not the global ones.
VisibleSectionsOwnOnly(company_id) ==
    IF company_id # None
    THEN {sid \in DOMAIN sections : sections[sid].company_id = company_id}
    ELSE DOMAIN sections

\* The sections get_question lists: the company's and the global ones, or
\* all of them for a user without a company.
VisibleSections(company_id) ==
    IF company_id # None
    THEN {sid \in DOMAIN sections : \/ sections[sid].company_id = company_id
                                    \/ sections[sid].company_id = None}
    ELSE DOMAIN sections

\* db.query(Question).filter(Question.section_id == section.id).all()
SectionQuestions(sid) ==
    {q \in DOMAIN questions : questions[q].section_id = Some(sid)}

\* question_data of one question, given the answer user_answers.get() returns.
QuestionData(found) ==
    [answer |-> IF found # None THEN Some(answers[Get(found)].answer) ELSE None,
     rating |-> IF found # None THEN answers[Get(found)].rating ELSE None]

get_question(current_user) ==
    LET listed == VisibleSections(CompanyOf(current_user))
        asked == UNION {SectionQuestions(sid) : sid \in listed}
        \* user_answers: {} for a User, {a.question_id: a} for a Profile
        mine == IF current_user.kind = "User" THEN {}
                ELSE UserAnswers(current_user.id)
    IN  /\ \E user_answers \in FirstAnswers(mine, asked) :
              response' = [op |-> "get_question", status |-> 200,
                           user |-> current_user,
                           sections |->
                              [sid \in listed |->
                                  [q \in SectionQuestions(sid) |->
                                      QuestionData(user_answers[q])]]]
        /\ UNCHANGED <<store, seq, clock,
                       reset_codes, admin_login, startup, sessions>>

(***************************************************************************)
(* SpecVisible: both views over every assignment of MaxSurvey questions to *)
(* the section of company 1, the global section, the section of company 2  *)
(* or no section.  Profiles 1 and 2 belong to companies 1 and 2, Profile 3 *)
(* and the staff User to none; Profile 1 has answered some questions.      *)
(***************************************************************************)
InitVisible ==
    /\ companies = (1 :> [name |-> "acme"]) @@ (2 :> [name |-> "other"])
    /\ sections = (1 :> [company_id |-> Some(1), title |-> "t"])
                    @@ (2 :> [company_id |-> None, title |-> "t"])
                    @@ (3 :> [company_id |-> Some(2), title |-> "t"])
    /\ \E section_of \in [1..MaxSurvey -> {None, Some(1), Some(2), Some(3)}] :
          questions = [q \in 1..MaxSurvey |-> [section_id |-> section_of[q],
                                                question |-> "q"]]
    /\ profiles = (1 :> [email |-> "a@x", company_id |-> Some(1)])
                    @@ (2 :> [email |-> "b@x", company_id |-> Some(2)])
                    @@ (3 :> [email |-> "c@x", company_id |-> None])
    /\ users = (1 :> [email |-> "staff@x", hashed_password |-> StaffHash,
                      company_id |-> None])
    /\ \E answered \in SUBSET (1..MaxSurvey) :
          answers = SurveyAnswers([q \in 1..MaxSurvey |->
                        IF q \in answered
                        THEN Some([answer |-> "ok", rating |-> Some(2)])
                        ELSE None])
    /\ seq = [companies |-> 3, sections |-> 4, questions |-> MaxSurvey + 1,
              answers |-> MaxSurvey + 1]
    /\ clock = 0
    /\ Started
    /\ sessions = EmptyTable
    /\ response = NoResponse

NextVisible ==
    \/ Idle /\ \E current_user \in Identities : get_question(current_user)
    \/ Idle /\ \E company_id \in 1..3 : get_users_by_company(company_id)
    \/ Reply

SpecVisible == InitVisible /\ [][NextVisible]_vars

\* The questions a user of the given company (None: no company) is to see.
VisibleTo(company) ==
    {q \in DOMAIN questions :
        \E sid \in DOMAIN sections :
            /\ questions[q].section_id = Some(sid)
            /\ \/ company = None
               \/ sections[sid].company_id = None
               \/ sections[sid].company_id = company}

\* The questions a get_question response lists.
Listed == UNION {DOMAIN response.sections[sid] : sid \in DOMAIN response.sections}

(***************************************************************************)
(* C11: the questions get_question lists for a user, and the questions     *)
(* get_users_by_company counts for the Profiles of a company, are exactly  *)
(* those whose section belongs to the user's company or to no company      *)
(* (global sections count for every company); a user without a company     *)
(* sees the questions of every section.                                    *)
(***************************************************************************)
C11_VisibleQuestionSet ==
    /\ (response.op = "get_question" /\ response.status = 200) =>
          /\ Listed = VisibleTo(CompanyOf(response.user))
          /\ \A sid \in DOMAIN response.sections :
                DOMAIN response.sections[sid] = SectionQuestions(sid)
          /\ CompanyOf(response.user) = None =>
                DOMAIN response.sections = DOMAIN sections
    /\ Reported =>
          \A p \in DOMAIN response.users :
              /\ profiles[p].company_id = Some(response.company_id)
              /\ response.users[p].total_questions
                    = Cardinality(VisibleTo(Some(response.company_id)))
              /\ response.users[p].answered_count
                    = Cardinality({q \in VisibleTo(Some(response.company_id)) :
                                      AnswersOf(p, q) # {}})

\* Profile 1 of company 1 is shown a question of the global section and one
\* of its company's section, and not the question of company 2's section.
C11_Witness ==
    /\ response.op = "get_question" /\ response.status = 200
    /\ response.user = [kind |-> "Profile", id |-> 1]
    /\ DOMAIN response.sections = {1, 2}
    /\ DOMAIN response.sections[1] # {}
    /\ DOMAIN response.sections[2] # {}
    /\ SectionQuestions(3) # {}

(***************************************************************************)
(* C12: deleting a parent deletes its answers.  After a successful         *)
(* delete_question(q) no Answer has question_id = q, after a successful    *)
(* delete_user(p) no Answer has user_id = p, and after any sequence of     *)
(* submissions and deletions handled one at a time every stored Answer     *)
(* references an existing Question and an existing Profile.                *)
(***************************************************************************)
C12_DeleteCascadesToAnswers ==
    /\ (response.op = "delete_question" /\ response.status = 200) =>
          /\ response.question_id \notin DOMAIN questions
          /\ \A id \in DOMAIN answers : answers[id].question_id # response.question_id
    /\ (response.op = "delete_user" /\ response.status = 200) =>
          /\ response.user_id \notin DOMAIN profiles
          /\ \A id \in DOMAIN answers : answers[id].user_id # response.user_id
    /\ \A id \in DOMAIN answers :
          /\ answers[id].question_id \in DOMAIN questions
          /\ answers[id].user_id \in DOMAIN profiles

\* An answered question has just been deleted with its answers, while an
\* answer to another question is still stored.
C12_Witness ==
    /\ response.op = "delete_question" /\ response.status = 200
    /\ response.answers_deleted >= 1
    /\ DOMAIN answers # {}

(***************************************************************************)
(* Companies and sections (admin)                                          *)
(***************************************************************************)
\* A table with company_id set to NULL where it was company_id.
SetNull(table, company_id) ==
    [id \in DOMAIN table |->
        IF table[id].company_id = Some(company_id)
        THEN [table[id] EXCEPT !.company_id = None]
        ELSE table[id]]

\* POST /admin/create-section/
create_section(title, company_id) ==
    /\ seq.sections <= MaxSectionId
    /\ IF company_id # None /\ Get(company_id) \notin DOMAIN companies
       THEN /\ response' = [op |-> "create_section", status |-> 404,
                            detail |-> "Company not found"]
            /\ UNCHANGED <<sections, seq>>
       ELSE /\ sections' = (seq.sections :> [company_id |-> company_id,
                                             title |-> title]) @@ sections
            /\ seq' = [seq EXCEPT !.sections = seq.sections + 1]
            /\ response' = [op |-> "create_section", status |-> 200,
                            section_id |-> seq.sections]
    /\ UNCHANGED <<companies, questions, profiles, users, answers, clock,
                   reset_codes, admin_login, startup, sessions>>

\* Mutant: the name is not checked against the existing companies.
add_company_unchecked(company_name) ==
    /\ seq.companies <= MaxCompanyId
    /\ companies' = (seq.companies :> [name |-> company_name]) @@ companies
    /\ seq' = [seq EXCEPT !.companies = seq.companies + 1]
    /\ response' = [op |-> "add_company", status |-> 200,
                    company_id |-> seq.companies, name |-> company_name]
    /\ UNCHANGED <<sections, questions, profiles, users, answers, clock,
                   reset_codes, admin_login, startup, sessions>>

\* POST /admin/add-company
add_company(company_name) ==
    /\ seq.companies <= MaxCompanyId
    /\ IF \E c \in DOMAIN companies : companies[c].name = company_name
       THEN /\ response' = [op |-> "add_company", status |-> 400,
                            detail |-> "Company already exists",
                            name |-> company_name]
            /\ UNCHANGED <<companies, seq>>
       ELSE /\ companies' = (seq.companies :> [name |-> company_name]) @@ companies
            /\ seq' = [seq EXCEPT !.companies = seq.companies + 1]
            /\ response' = [op |-> "add_company", status |-> 200,
                            company_id |-> seq.companies, name |-> company_name]
    /\ UNCHANGED <<sections, questions, profiles, users, answers, clock,
                   reset_codes, admin_login, startup, sessions>>

\* PUT /admin/update-company/{company_id}
update_company(company_id, company_name) ==
    /\ IF company_id \notin DOMAIN companies
       THEN /\ response' = [op |-> "update_company", status |-> 404,
                            detail |-> "Company not found",
                            company_id |-> company_id, name |-> company_name]
            /\ UNCHANGED companies
       ELSE IF \E c \in DOMAIN companies \ {company_id} :
                  companies[c].name = company_name
       THEN /\ response' = [op |-> "update_company", status |-> 400,
                            detail |-> "Company name already exists",
                            company_id |-> company_id, name |-> company_name]
            /\ UNCHANGED companies
       ELSE /\ companies' = [companies EXCEPT ![company_id].name = company_name]
            /\ response' = [op |-> "update_company", status |-> 200,
                            company_id |-> company_id, name |-> company_name]
    /\ UNCHANGED <<sections, questions, profiles, users, answers, seq, clock,
                   reset_codes, admin_login, startup, sessions>>

\* Mutant: the company is deleted while its sections still point at it.
delete_company_keep_sections(company_id, set_null) ==
    /\ IF company_id \notin DOMAIN companies
       THEN /\ response' = [op |-> "delete_company", status |-> 404,
                            detail |-> "Company not found", company_id |-> company_id]
            /\ UNCHANGED <<companies, users, sections, profiles>>
       ELSE /\ users' = SetNull(users, company_id)
            /\ sections' = sections
            /\ companies' = Without(companies, {company_id})
            /\ profiles' = SetNull(profiles, company_id)
            /\ response' = [op |-> "delete_company", status |-> 200,
                            company_id |-> company_id]
    /\ UNCHANGED <<questions, answers, seq, clock,
                   reset_codes, admin_login, startup, sessions>>

\* DELETE /admin/delete-company/{company_id}.  users and sections are set to
\* NULL and committed by the handler; profiles are left to the foreign key:
\* set_null is whether the constraint profiles.company_id of the database
\* carries ON DELETE SET NULL (as models.py declares it) or rejects the DELETE
\* while a profile refers to the company.
delete_company(company_id, set_null) ==
    /\ IF company_id \notin DOMAIN companies
       THEN /\ response' = [op |-> "delete_company", status |-> 404,
                            detail |-> "Company not found", company_id |-> company_id]
            /\ UNCHANGED <<companies, users, sections, profiles>>
       ELSE /\ users' = SetNull(users, company_id)
            /\ sections' = SetNull(sections, company_id)
            /\ IF ~set_null /\ \E p \in DOMAIN profiles :
                                  profiles[p].company_id = Some(company_id)
               THEN /\ response' = [op |-> "delete_company", status |-> 400,
                                    detail |-> "Cannot delete company due to database constraint",
                                    company_id |-> company_id]
                    /\ UNCHANGED <<companies, profiles>>
               ELSE /\ companies' = Without(companies, {company_id})
                    /\ profiles' = SetNull(profiles, company_id)
                    /\ response' = [op |-> "delete_company", status |-> 200,
                                    company_id |-> company_id]
    /\ UNCHANGED <<questions, answers, seq, clock,
                   reset_codes, admin_login, startup, sessions>>

(***************************************************************************)
(* SpecCompany: company administration over a store that holds company 1   *)
(* with a staff User, Profile 1, section 1 with question 1, and the answer *)
(* of Profile 1 to it.                                                     *)
(***************************************************************************)
CompanyNames == {"acme", "other"}

InitCompany ==
    /\ companies = (1 :> [name |-> "acme"])
    /\ sections = (1 :> [company_id |-> Some(1), title |-> "t"])
    /\ questions = (1 :> [section_id |-> Some(1), question |-> "q"])
    /\ profiles = (1 :> [email |-> "a@x", company_id |-> Some(1)])
    /\ users = (1 :> [email |-> "staff@x", hashed_password |-> StaffHash,
                      company_id |-> Some(1)])
    /\ answers = (1 :> CreateAnswer(1, 1, "ok", Some(2), Some(now(0))))
    /\ seq = [companies |-> 2, sections |-> 2, questions |-> 2, answers |-> 2]
    /\ clock = 0
    /\ Started
    /\ sessions = EmptyTable
    /\ response = NoResponse

NextCompany ==
    \/ Idle /\ \E company_name \in CompanyNames : add_company(company_name)
    \/ Idle /\ \E company_id \in 1..MaxCompanyId + 1, company_name \in CompanyNames :
                  update_company(company_id, company_name)
    \/ Idle /\ \E company_id \in 1..MaxCompanyId + 1, set_null \in BOOLEAN :
                  delete_company(company_id, set_null)
    \/ Idle /\ \E company_id \in {None} \cup {Some(c) : c \in 1..MaxCompanyId} :
                  signup("b@x", company_id)
    \/ Idle /\ \E company_id \in {None} \cup {Some(c) : c \in 1..MaxCompanyId} :
                  create_section("t", company_id)
    \/ Reply

SpecCompany == InitCompany /\ [][NextCompany]_vars

\* The step is a delete_company(c) that succeeded.
DeletedCompany(c) ==
    /\ Idle
    /\ response'.op = "delete_company" /\ response'.status = 200
    /\ response'.company_id = c

\* table2 is table with every reference to company c set to null.
Detached(table, table2, c) ==
    /\ DOMAIN table2 = DOMAIN table
    /\ \A id \in DOMAIN table :
          /\ table2[id].company_id # Some(c)
          /\ table2[id] = IF table[id].company_id = Some(c)
                          THEN [table[id] EXCEPT !.company_id = None]
                          ELSE table[id]

(***************************************************************************)
(* C13: after a successful delete_company(c) the Company c no longer       *)
(* exists, every User, Profile and Section that referred to c has          *)
(* company_id null and none refers to c, and no User, Profile, Section,    *)
(* Question or Answer has been deleted.                                    *)
(***************************************************************************)
C13_DeleteCompanyDetaches ==
    [][\A c \in DOMAIN companies :
          DeletedCompany(c) =>
              /\ companies' = Without(companies, {c})
              /\ Detached(users, users', c)
              /\ Detached(profiles, profiles', c)
              /\ Detached(sections, sections', c)
              /\ questions' = questions
              /\ answers' = answers]_vars

\* Company 1 has been deleted; its User, Profile and section are still
\* there, detached, and so are the question and the answer.
C13_Witness ==
    /\ response.op = "delete_company" /\ response.status = 200
    /\ response.company_id = 1
    /\ users[1].company_id = None
    /\ profiles[1].company_id = None
    /\ sections[1].company_id = None
    /\ 1 \in DOMAIN questions /\ 1 \in DOMAIN answers

(***************************************************************************)
(* C14: company names stay unique.  After any sequence of add_company,     *)
(* update_company and delete_company no two Companies have the same name;  *)
(* add_company with an existing name and update_company to a name held by  *)
(* another company are rejected with an error and leave the Company table  *)
(* unchanged.                                                              *)
(***************************************************************************)
C14_CompanyNamesUnique ==
    [][/\ \A c1, c2 \in DOMAIN companies' :
            companies'[c1].name = companies'[c2].name => c1 = c2
       /\ (Idle /\ response'.op = "add_company"
             /\ \E c \in DOMAIN companies : companies[c].name = response'.name)
            => response'.status = 400 /\ companies' = companies
       /\ (Idle /\ response'.op = "update_company"
             /\ \E c \in DOMAIN companies \ {response'.company_id} :
                   companies[c].name = response'.name)
            => response'.status \in {400, 404} /\ companies' = companies
      ]_vars

\* Two companies exist and an update of one to the other's name has just
\* been rejected.
C14_Witness ==
    /\ response.op = "update_company" /\ response.status = 400
    /\ Cardinality(DOMAIN companies) = 2

(***************************************************************************)
(* Rating aggregation.  Decimal results are carried in hundredths.         *)
(***************************************************************************)
\* sum(f[x] for x in S)
RECURSIVE Sum(_, _)
Sum(f, S) ==
    IF S = {} THEN 0
    ELSE LET x == CHOOSE y \in S : TRUE
         IN  f[x] + Sum(f, S \ {x})

\* The largest r in lo..hi-1 with r * r <= n, given lo * lo <= n < hi * hi.
RECURSIVE IsqrtIn(_, _, _)
IsqrtIn(n, lo, hi) ==
    IF hi - lo <= 1 THEN lo
    ELSE LET mid == (lo + hi) \div 2
         IN  IF mid * mid <= n THEN IsqrtIn(n, mid, hi) ELSE IsqrtIn(n, lo, mid)

\* floor(sqrt(n)), for n below 46340 * 46340 (the squares stay in 32 bits).
Isqrt(n) == IsqrtIn(n, 0, IF n < 46340 THEN n + 1 ELSE 46340)

\* round(num / den, 2) in hundredths, den > 0 (half to even).
RoundHundredths(num, den) ==
    LET scaled == 100 * num
        quo == scaled \div den
        rem == scaled % den
    IN  IF 2 * rem < den THEN quo
        ELSE IF 2 * rem > den THEN quo + 1
        ELSE IF quo % 2 = 0 THEN quo ELSE quo + 1

\* ratings = [a.rating for a in answers if a.rating is not None], as the
\* answer ids that carry them.
Rated(ids) == {id \in ids : answers[id].rating # None}

\* The rating of every rated answer, and its square.
RatingOf == [id \in Rated(DOMAIN answers) |-> Get(answers[id].rating)]
SquareOf == [id \in Rated(DOMAIN answers) |-> RatingOf[id] * RatingOf[id]]

\* Mutant: an answer without a rating counts as a rating of 0.
AvgRatingNullAsZero(ids) ==
    IF Rated(ids) # {}
    THEN Some(RoundHundredths(Sum(RatingOf, Rated(ids)), Cardinality(ids)))
    ELSE None

\* round(mean(ratings), 2) if ratings else None
AvgRating(ids) ==
    IF Rated(ids) # {}
    THEN Some(RoundHundredths(Sum(RatingOf, Rated(ids)), Cardinality(Rated(ids))))
    ELSE None

\* n(n-1) times the sample variance of the ratings:
\* n * sum(x^2) - sum(x)^2, n = len(ratings).
ScaledVariance(ids) ==
    Cardinality(Rated(ids)) * Sum(SquareOf, Rated(ids))
        - Sum(RatingOf, Rated(ids)) * Sum(RatingOf, Rated(ids))

\* Mutant: the standard deviation is cut to two decimals, not rounded.
StdDevTruncated(ids) ==
    LET n == Cardinality(Rated(ids))
    IN  IF n > 1
        THEN Some(Isqrt((10000 * ScaledVariance(ids)) \div (n * (n - 1))))
        ELSE None

\* round(stdev(ratings), 2) if len(ratings) > 1 else None.  With
\* v = ScaledVariance / (n(n-1)): floor(200 sqrt(v)) is 2s-1 or 2s exactly
\* when 100 sqrt(v) rounds to s.
StdDev(ids) ==
    LET n == Cardinality(Rated(ids))
    IN  IF n > 1
        THEN Some((Isqrt((40000 * ScaledVariance(ids)) \div (n * (n - 1))) + 1) \div 2)
        ELSE None

\* db.query(UserAnswer).filter(UserAnswer.question_id == question.id).all()
QuestionAnswers(q) == {id \in DOMAIN answers : answers[id].question_id = q}

\* GET /admin/get-questions-by-company/{company_id}
get_questions_by_company(company_id) ==
    /\ IF company_id \notin DOMAIN companies
       THEN response' = [op |-> "get_questions_by_company", status |-> 404,
                         detail |-> "Company not found"]
       ELSE response' =
              [op |-> "get_questions_by_company", status |-> 200,
               company_id |-> company_id,
               sections |->
                  [sid \in {x \in DOMAIN sections :
                               sections[x].company_id = Some(company_id)} |->
                      [q \in SectionQuestions(sid) |->
                          [avg_rating |-> AvgRating(QuestionAnswers(q)),
                           std_dev |-> StdDev(QuestionAnswers(q)),
                           answers |-> QuestionAnswers(q)]]]]
    /\ UNCHANGED <<store, seq, clock,
                   reset_codes, admin_login, startup, sessions>>

(***************************************************************************)
(* GET /admin/generate-collective-report.  The handler runs to completion  *)
(* within the request; response.calls is the sequence of calls it made to  *)
(* the text-generation service and the email sender, in order.             *)
(***************************************************************************)
\* The orders in which db.query(Question).all() can return the questions.
QuestionOrders ==
    {order \in [1..Cardinality(DOMAIN questions) -> DOMAIN questions] :
        \A i, j \in DOMAIN order : order[i] = order[j] => i = j}

\* Mutant: an average of exactly 0 is labelled Poor.
RatingLabelNoNeutral(avg_rating) ==
    IF avg_rating # None /\ Get(avg_rating) > 0 THEN "Good" ELSE "Poor"

\* rating_label; avg_rating None stands for "N/A".
RatingLabel(avg_rating) ==
    IF avg_rating # None /\ Get(avg_rating) > 0 THEN "Good"
    ELSE IF avg_rating = Some(0) THEN "Neutral"
    ELSE "Poor"

\* The entry appended to `report` for question q.
ReportBlock(q) ==
    [question_id |-> q,
     avg_rating |-> AvgRating(QuestionAnswers(q)),
     rating_label |-> RatingLabel(AvgRating(QuestionAnswers(q)))]

\* The calls of generate_feedback for the first n questions of `asked`, the
\* last of them failing when `failed`.
GenerateCalls(asked, n, failed) ==
    [k \in 1..n |-> [to |-> "text-generation", question_id |-> asked[k],
                     ok |-> ~(failed /\ k = n)]]

\* Mutant: a failed text-generation call is skipped and the loop goes on.
generate_collective_feedback_report_lenient(order, budget) ==
    LET Answered(q) == QuestionAnswers(q) # {}
        asked == SelectSeq(order, Answered)
    IN  /\ response' = [op |-> "generate_collective_feedback_report", status |-> 200,
                        calls |-> Append([k \in 1..Len(asked) |->
                                            [to |-> "text-generation",
                                             question_id |-> asked[k],
                                             ok |-> k # budget + 1]],
                                         [to |-> "email", ok |-> TRUE]),
                        report |-> [k \in 1..Len(asked) |-> ReportBlock(asked[k])]]
        /\ UNCHANGED <<store, seq, clock,
                       reset_codes, admin_login, startup, sessions>>

\* Mutant: a summary is generated for every question, answered or not.
generate_collective_feedback_report_all(order, budget) ==
    /\ response' = [op |-> "generate_collective_feedback_report", status |-> 200,
                    calls |-> Append(GenerateCalls(order, Len(order), FALSE),
                                     [to |-> "email", ok |-> TRUE]),
                    report |-> [k \in 1..Len(order) |-> ReportBlock(order[k])]]
    /\ UNCHANGED <<store, seq, clock,
                   reset_codes, admin_login, startup, sessions>>

\* `order` is the order of the questions; `budget` is how many calls to the
\* collaborators succeed before one fails.
generate_collective_feedback_report(order, budget) ==
    LET Answered(q) == QuestionAnswers(q) # {}
        asked == SelectSeq(order, Answered)
        op == "generate_collective_feedback_report"
    IN  /\ IF DOMAIN questions = {}
           THEN response' = [op |-> op, status |-> 404,
                             detail |-> "No questions found", calls |-> <<>>]
           ELSE IF budget < Len(asked)
           THEN response' = [op |-> op, status |-> 500,
                             detail |-> "Error generating feedback",
                             calls |-> GenerateCalls(asked, budget + 1, TRUE)]
           ELSE IF asked = <<>>
           THEN response' = [op |-> op, status |-> 200,
                             message |-> "No data available for collective report.",
                             calls |-> <<>>]
           ELSE IF budget = Len(asked)
           THEN response' = [op |-> op, status |-> 500,
                             detail |-> "Failed to send email with attachment",
                             calls |-> Append(GenerateCalls(asked, Len(asked), FALSE),
                                              [to |-> "email", ok |-> FALSE])]
           ELSE response' = [op |-> op, status |-> 200,
                             calls |-> Append(GenerateCalls(asked, Len(asked), FALSE),
                                              [to |-> "email", ok |-> TRUE]),
                             report |-> [k \in 1..Len(asked) |-> ReportBlock(asked[k])]]
        /\ UNCHANGED <<store, seq, clock,
                       reset_codes, admin_login, startup, sessions>>

(***************************************************************************)
(* SpecRatings: the aggregates of one question of company 1, answered by   *)
(* any of MaxRaters profiles with any rating of -3..3 or none.             *)
(***************************************************************************)
RatingChoices == {None} \cup {Some(r) : r \in -3..3}

InitRatings ==
    /\ companies = (1 :> [name |-> "acme"]) @@ (2 :> [name |-> "other"])
    /\ sections = (1 :> [company_id |-> Some(1), title |-> "t"])
    /\ questions = (1 :> [section_id |-> Some(1), question |-> "q"])
    /\ profiles = [p \in 1..MaxRaters |-> [email |-> ToString(p) \o "@x",
                                          company_id |-> Some(1)]]
    /\ users = (1 :> [email |-> "staff@x", hashed_password |-> StaffHash,
                      company_id |-> None])
    /\ \E rating \in [1..MaxRaters -> {{}} \cup {{r} : r \in RatingChoices}] :
          answers = [p \in {x \in 1..MaxRaters : rating[x] # {}} |->
                        CreateAnswer(1, p, "ok", Get(rating[p]), Some(now(0)))]
    /\ seq = [companies |-> 3, sections |-> 2, questions |-> 2,
              answers |-> MaxRaters + 1]
    /\ clock = 0
    /\ Started
    /\ sessions = EmptyTable
    /\ response = NoResponse

NextRatings ==
    \/ Idle /\ \E company_id \in 1..3 : get_questions_by_company(company_id)
    \/ Idle /\ \E order \in QuestionOrders, budget \in 0..2 :
                  generate_collective_feedback_report(order, budget)
    \/ Reply

SpecRatings == InitRatings /\ [][NextRatings]_vars

\* The integer ratings of the answers to question q, as answer id -> rating.
PresentRatings(q) ==
    [id \in {x \in DOMAIN answers : answers[x].question_id = q
                                      /\ answers[x].rating # None} |->
        Get(answers[id].rating)]

\* 2 |hundredths / 100 - num / den| <= 1 / 100: hundredths is num / den
\* rounded to two decimals (den > 0).
IsRounded(hundredths, num, den) ==
    /\ 2 * (hundredths * den - 100 * num) <= den
    /\ 2 * (100 * num - hundredths * den) <= den

\* n(n-1) times the sample variance of r: n(n-1) * sum((x - mean)^2) / (n-1).
SampleVarianceTimes(r) ==
    LET n == Cardinality(DOMAIN r)
        total == Sum(r, DOMAIN r)
    IN  Sum([id \in DOMAIN r |-> (n * r[id] - total) * (n * r[id] - total)], DOMAIN r)
          \div n

\* The question entries of a get_questions_by_company response.
ReportedQuestions ==
    UNION {{[q |-> q, data |-> response.sections[sid][q]]
              : q \in DOMAIN response.sections[sid]}
           : sid \in DOMAIN response.sections}

\* avg_rating of an entry is the mean of the present ratings rounded to two
\* decimals, absent exactly when there is none.
AvgIsMean(e) ==
    LET r == PresentRatings(e.q)
    IN  IF DOMAIN r = {} THEN e.data.avg_rating = None
        ELSE /\ e.data.avg_rating # None
             /\ IsRounded(Get(e.data.avg_rating), Sum(r, DOMAIN r),
                          Cardinality(DOMAIN r))

(***************************************************************************)
(* C15 as stated: avg_rating is the mean of the non-null ratings rounded   *)
(* to 2 decimals, absent exactly when no Answer has a rating; std_dev is   *)
(* the sample standard deviation of those ratings (its square is the       *)
(* sample variance), absent exactly when fewer than 2 Answers have one.    *)
(***************************************************************************)
C15_StdDevIsSampleStdDev ==
    (response.op = "get_questions_by_company" /\ response.status = 200) =>
        \A e \in ReportedQuestions :
            LET r == PresentRatings(e.q)
                n == Cardinality(DOMAIN r)
            IN  /\ AvgIsMean(e)
                /\ IF n < 2 THEN e.data.std_dev = None
                   ELSE /\ e.data.std_dev # None
                        /\ Get(e.data.std_dev) * Get(e.data.std_dev) * n * (n - 1)
                              = 10000 * SampleVarianceTimes(r)

(***************************************************************************)
(* C15, amended: as above, but std_dev is the sample standard deviation    *)
(* rounded to 2 decimals: with s the reported hundredths and v the sample  *)
(* variance, (s - 1/2)^2 <= 10000 v <= (s + 1/2)^2.                        *)
(***************************************************************************)
C15_RatingAggregates ==
    (response.op = "get_questions_by_company" /\ response.status = 200) =>
        \A e \in ReportedQuestions :
            LET r == PresentRatings(e.q)
                n == Cardinality(DOMAIN r)
                s == Get(e.data.std_dev)
            IN  /\ AvgIsMean(e)
                /\ IF n < 2 THEN e.data.std_dev = None
                   ELSE /\ e.data.std_dev # None
                        /\ s >= 0
                        /\ (s = 0 => SampleVarianceTimes(r) = 0)
                        /\ (s > 0 => (2 * s - 1) * (2 * s - 1) * n * (n - 1)
                                        <= 40000 * SampleVarianceTimes(r))
                        /\ 40000 * SampleVarianceTimes(r)
                              <= (2 * s + 1) * (2 * s + 1) * n * (n - 1)

\* Ratings 1 and 2 and an answer without rating: avg 1.5, std_dev 0.71.
C15_Witness ==
    /\ response.op = "get_questions_by_company" /\ response.status = 200
    /\ \E e \in ReportedQuestions :
          /\ Cardinality(e.data.answers) = 3
          /\ Cardinality(DOMAIN PresentRatings(e.q)) = 2
          /\ e.data.avg_rating = Some(150)
          /\ e.data.std_dev = Some(71)

\* The last request was a collective report that succeeded with a report.
ReportReturned ==
    /\ response.op = "generate_collective_feedback_report"
    /\ response.status = 200
    /\ "report" \in DOMAIN response

(***************************************************************************)
(* C16: in the collective report every question that has an Answer is      *)
(* labelled Good when its average rating (the mean of its ratings, to the  *)
(* 2 decimals of avg_rating) is > 0, Neutral when it is exactly 0, and     *)
(* Poor when it is < 0 or no Answer carries a rating.                      *)
(***************************************************************************)
C16_RatingLabel ==
    ReportReturned =>
        /\ {response.report[k].question_id : k \in DOMAIN response.report}
              = {q \in DOMAIN questions : QuestionAnswers(q) # {}}
        /\ \A k \in DOMAIN response.report :
              LET block == response.report[k]
                  r == PresentRatings(block.question_id)
                  avg == Get(block.avg_rating)
              IN  /\ (block.avg_rating = None) <=> (DOMAIN r = {})
                  /\ DOMAIN r # {} =>
                        IsRounded(avg, Sum(r, DOMAIN r), Cardinality(DOMAIN r))
                  /\ block.rating_label =
                        IF DOMAIN r # {} /\ avg > 0 THEN "Good"
                        ELSE IF DOMAIN r # {} /\ avg = 0 THEN "Neutral"
                        ELSE "Poor"

\* Ratings -1 and 1 average to exactly 0: the block is labelled Neutral.
C16_Witness ==
    /\ ReportReturned
    /\ response.report[1].rating_label = "Neutral"
    /\ \E id1, id2 \in DOMAIN answers :
          answers[id1].rating = Some(-1) /\ answers[id2].rating = Some(1)

(***************************************************************************)
(* SpecReport: the collective report over 0..MaxReportQuestions questions, *)
(* each without an answer or with one answer of Profile 1 (rated or not),  *)
(* with the questions returned in any order and any call to a collaborator *)
(* failing.                                                                *)
(***************************************************************************)
InitReport ==
    /\ companies = EmptyTable
    /\ sections = EmptyTable
    /\ profiles = (1 :> [email |-> "a@x", company_id |-> None])
    /\ users = (1 :> [email |-> "staff@x", hashed_password |-> StaffHash,
                      company_id |-> None])
    /\ \E count \in 0..MaxReportQuestions :
          /\ questions = [q \in 1..count |-> [section_id |-> None, question |-> "q"]]
          /\ \E content \in [1..count ->
                               {None, Some([answer |-> "ok", rating |-> Some(2)]),
                                Some([answer |-> "ok", rating |-> None])}] :
                answers = SurveyAnswers(content)
          /\ seq = [companies |-> 1, sections |-> 1, questions |-> count + 1,
                    answers |-> count + 1]
    /\ clock = 0
    /\ Started
    /\ sessions = EmptyTable
    /\ response = NoResponse

NextReport ==
    \/ Idle /\ \E order \in QuestionOrders, budget \in 0..MaxReportQuestions + 1 :
                  generate_collective_feedback_report(order, budget)
    \/ Reply

SpecReport == InitReport /\ [][NextReport]_vars

\* The last request was a collective report.
ReportRequested == response.op = "generate_collective_feedback_report"

\* The questions that have at least one Answer.
AnsweredQuestions == {q \in DOMAIN questions : QuestionAnswers(q) # {}}

\* The positions of response.calls that went to the given collaborator.
CallsTo(collaborator) ==
    {k \in DOMAIN response.calls : response.calls[k].to = collaborator}

(***************************************************************************)
(* C17: whenever no Question has any Answer, also when there is no         *)
(* Question at all, generate_collective_feedback_report returns the        *)
(* explicit "no data" outcome, not an error, and calls neither the         *)
(* text-generation service nor the email sender.                           *)
(***************************************************************************)
C17_NoDataOutcome ==
    (ReportRequested /\ AnsweredQuestions = {}) =>
        /\ response.status = 200
        /\ "message" \in DOMAIN response
        /\ response.calls = <<>>

(***************************************************************************)
(* C18: if a text-generation call of generate_collective_feedback_report   *)
(* fails, the operation ends in an error: no report is returned, no email  *)
(* is sent, and no text-generation call is made for the remaining          *)
(* questions (the failed call is the last call).                           *)
(***************************************************************************)
C18_GenerationFailureIsTerminal ==
    ReportRequested =>
        \A k \in CallsTo("text-generation") :
            ~response.calls[k].ok =>
                /\ response.status = 500
                /\ "report" \notin DOMAIN response
                /\ CallsTo("email") = {}
                /\ k = Len(response.calls)

\* Three questions have answers; the call for the first one failed and the
\* report ended there.
C18_Witness ==
    /\ ReportRequested
    /\ response.status = 500
    /\ Cardinality(AnsweredQuestions) = 3
    /\ Len(response.calls) = 1
    /\ ~response.calls[1].ok

(***************************************************************************)
(* C19: a successful generate_collective_feedback_report makes exactly one *)
(* text-generation call for each Question that has an Answer and none for  *)
(* the others, then sends exactly one email, and then returns a report     *)
(* with exactly one block per answered question; an email is never sent    *)
(* before every text-generation call has succeeded.                        *)
(***************************************************************************)
C19_CallsThenEmailThenReport ==
    /\ ReportReturned =>
          /\ Len(response.calls) = Cardinality(AnsweredQuestions) + 1
          /\ CallsTo("email") = {Len(response.calls)}
          /\ \A k \in DOMAIN response.calls : response.calls[k].ok
          /\ \A q \in DOMAIN questions :
                Cardinality({k \in CallsTo("text-generation") :
                                response.calls[k].question_id = q})
                  = IF q \in AnsweredQuestions THEN 1 ELSE 0
          /\ Len(response.report) = Cardinality(AnsweredQuestions)
          /\ \A q \in AnsweredQuestions :
                Cardinality({k \in DOMAIN response.report :
                                response.report[k].question_id = q}) = 1
    /\ ReportRequested =>
          \A e \in CallsTo("email") :
              /\ \A k \in 1..(e - 1) :
                    response.calls[k].to = "text-generation" /\ response.calls[k].ok
              /\ {response.calls[k].question_id : k \in 1..(e - 1)} = AnsweredQuestions

\* Two of three questions have answers: two summaries were generated, then
\* the email was sent, and the report has two blocks.
C19_Witness ==
    /\ ReportReturned
    /\ Cardinality(DOMAIN questions) = 3
    /\ Cardinality(AnsweredQuestions) = 2
    /\ Len(response.calls) = 3
    /\ response.calls[3] = [to |-> "email", ok |-> TRUE]
    /\ Len(response.report) = 2

(***************************************************************************)
(* Single-item administration of sections and questions                    *)
(***************************************************************************)
\* PUT /admin/update-section-title/{section_id}; title and company_id are
\* the optional fields of SectionUpdate.
update_section_title(section_id, title, company_id) ==
    /\ IF section_id \notin DOMAIN sections
       THEN /\ response' = [op |-> "update_section_title", status |-> 404,
                            detail |-> "Section not found",
                            section_id |-> section_id, title |-> title,
                            company_id |-> company_id]
            /\ UNCHANGED sections
       ELSE IF company_id # None /\ Get(company_id) \notin DOMAIN companies
       THEN \* raised after section.title was assigned; nothing was committed
            /\ response' = [op |-> "update_section_title", status |-> 404,
                            detail |-> "Company not found",
                            section_id |-> section_id, title |-> title,
                            company_id |-> company_id]
            /\ UNCHANGED sections
       ELSE /\ sections' =
                 [sections EXCEPT ![section_id] =
                     [company_id |-> IF company_id # None THEN company_id
                                     ELSE @.company_id,
                      title |-> IF title # None THEN Get(title) ELSE @.title]]
            /\ response' = [op |-> "update_section_title", status |-> 200,
                            section_id |-> section_id, title |-> title,
                            company_id |-> company_id]
    /\ UNCHANGED <<companies, questions, profiles, users, answers, seq, clock,
                   reset_codes, admin_login, startup, sessions>>

\* Mutant: the section is deleted, its questions keep their section_id.
delete_section_only(section_id) ==
    /\ IF section_id \notin DOMAIN sections
       THEN /\ response' = [op |-> "delete_section", status |-> 404,
                            detail |-> "Section not found", section_id |-> section_id]
            /\ UNCHANGED <<sections, questions>>
       ELSE /\ questions' = questions
            /\ sections' = Without(sections, {section_id})
            /\ response' = [op |-> "delete_section", status |-> 200,
                            section_id |-> section_id, questions_updated |-> 0]
    /\ UNCHANGED <<companies, profiles, users, answers, seq, clock,
                   reset_codes, admin_login, startup, sessions>>

\* Mutant: the questions of the section are deleted with it.
delete_section_cascade(section_id) ==
    /\ IF section_id \notin DOMAIN sections
       THEN /\ response' = [op |-> "delete_section", status |-> 404,
                            detail |-> "Section not found", section_id |-> section_id]
            /\ UNCHANGED <<sections, questions>>
       ELSE LET gone == {q \in DOMAIN questions :
                            questions[q].section_id = Some(section_id)}
            IN  /\ questions' = Without(questions, gone)
                /\ sections' = Without(sections, {section_id})
                /\ response' = [op |-> "delete_section", status |-> 200,
                                section_id |-> section_id,
                                questions_updated |-> Cardinality(gone)]
    /\ UNCHANGED <<companies, profiles, users, answers, seq, clock,
                   reset_codes, admin_login, startup, sessions>>

\* DELETE /admin/delete-section/{section_id}
delete_section(section_id) ==
    /\ IF section_id \notin DOMAIN sections
       THEN /\ response' = [op |-> "delete_section", status |-> 404,
                            detail |-> "Section not found", section_id |-> section_id]
            /\ UNCHANGED <<sections, questions>>
       ELSE /\ questions' = [q \in DOMAIN questions |->
                               IF questions[q].section_id = Some(section_id)
                               THEN [questions[q] EXCEPT !.section_id = None]
                               ELSE questions[q]]
            /\ sections' = Without(sections, {section_id})
            /\ response' = [op |-> "delete_section", status |-> 200,
                            section_id |-> section_id,
                            questions_updated |->
                                Cardinality({q \in DOMAIN questions :
                                    questions[q].section_id = Some(section_id)})]
    /\ UNCHANGED <<companies, profiles, users, answers, seq, clock,
                   reset_codes, admin_login, startup, sessions>>

\* Mutant: the new question text is committed before the section is checked.
update_question_text_first(question_id, question, section_id) ==
    /\ IF question_id \notin DOMAIN questions
       THEN /\ response' = [op |-> "update_question", status |-> 404,
                            detail |-> "Question not found",
                            question_id |-> question_id, question |-> question,
                            section_id |-> section_id]
            /\ UNCHANGED questions
       ELSE /\ questions' =
                 [questions EXCEPT ![question_id] =
                     [section_id |-> IF section_id # None
                                        /\ Get(section_id) \in DOMAIN sections
                                     THEN section_id ELSE @.section_id,
                      question |-> IF question # None THEN Get(question)
                                   ELSE @.question]]
            /\ response' = [op |-> "update_question",
                            status |-> IF section_id # None
                                          /\ Get(section_id) \notin DOMAIN sections
                                       THEN 404 ELSE 200,
                            detail |-> "Section not found",
                            question_id |-> question_id, question |-> question,
                            section_id |-> section_id]
    /\ UNCHANGED <<companies, sections, profiles, users, answers, seq, clock,
                   reset_codes, admin_login, startup, sessions>>

\* PUT /admin/update-question/{question_id}; question and section_id are
\* optional fields of QuestionUpdate.
update_question(question_id, question, section_id) ==
    /\ IF question_id \notin DOMAIN questions
       THEN /\ response' = [op |-> "update_question", status |-> 404,
                            detail |-> "Question not found",
                            question_id |-> question_id, question |-> question,
                            section_id |-> section_id]
            /\ UNCHANGED questions
       ELSE IF section_id # None /\ Get(section_id) \notin DOMAIN sections
       THEN \* raised after question.question was assigned; nothing was committed
            /\ response' = [op |-> "update_question", status |-> 404,
                            detail |-> "Section not found",
                            question_id |-> question_id, question |-> question,
                            section_id |-> section_id]
            /\ UNCHANGED questions
       ELSE /\ questions' =
                 [questions EXCEPT ![question_id] =
                     [section_id |-> IF section_id # None THEN section_id
                                     ELSE @.section_id,
                      question |-> IF question # None THEN Get(question)
                                   ELSE @.question]]
            /\ response' = [op |-> "update_question", status |-> 200,
                            question_id |-> question_id, question |-> question,
                            section_id |-> section_id]
    /\ UNCHANGED <<companies, sections, profiles, users, answers, seq, clock,
                   reset_codes, admin_login, startup, sessions>>

(***************************************************************************)
(* SpecSingle: the single-item operations, with known and unknown ids,     *)
(* over the store of InitCompany.                                          *)
(***************************************************************************)
IdParams == {1, 2}
OptionalIds == {None} \cup {Some(id) : id \in IdParams}
OptionalTexts == {None, Some("new")}

NextSingle ==
    \/ Idle /\ \E question_id \in IdParams, current_user \in Identities :
                  submit_answer(question_id, [answer |-> "ok", rating |-> Some(2)],
                                current_user)
    \/ Idle /\ \E question_id \in IdParams, question \in OptionalTexts,
                  section_id \in OptionalIds :
                  update_question(question_id, question, section_id)
    \/ Idle /\ \E question_id \in IdParams : delete_question(question_id)
    \/ Idle /\ \E section_id \in IdParams, title \in OptionalTexts,
                  company_id \in OptionalIds :
                  update_section_title(section_id, title, company_id)
    \/ Idle /\ \E section_id \in IdParams : delete_section(section_id)
    \/ Idle /\ \E company_id \in IdParams, company_name \in CompanyNames :
                  update_company(company_id, company_name)
    \/ Idle /\ \E company_id \in IdParams, set_null \in BOOLEAN :
                  delete_company(company_id, set_null)
    \/ Idle /\ \E user_id \in UserIdParams : delete_user(user_id)
    \/ Reply

SpecSingle == InitCompany /\ [][NextSingle]_vars

\* The step fails the request and persists nothing.
FailsUnchanged == response'.status \in {400, 404} /\ store' = store

\* The optional id names an entity that is not in the table.
Unknown(id, table) == id # None /\ Get(id) \notin DOMAIN table

(***************************************************************************)
(* C20: a single-item operation that references an unknown entity fails    *)
(* the whole request and leaves the store unchanged: submit_answer,        *)
(* update_question, delete_question, update_section_title, delete_section, *)
(* update_company, delete_company and delete_user on an unknown id,        *)
(* update_section_title naming an unknown company_id and update_question   *)
(* naming an unknown section_id return an error, and none of the other     *)
(* fields of the request (a new title, a new question text) is persisted.  *)
(***************************************************************************)
C20_UnknownEntityFailsWholeRequest ==
    [][Idle =>
        /\ \A id \in IdParams :
            /\ \A current_user \in Identities :
                  (id \notin DOMAIN questions
                     /\ submit_answer(id, [answer |-> "ok", rating |-> Some(2)],
                                      current_user)) => FailsUnchanged
            /\ \A question \in OptionalTexts, section_id \in OptionalIds :
                  ((id \notin DOMAIN questions \/ Unknown(section_id, sections))
                     /\ update_question(id, question, section_id)) => FailsUnchanged
            /\ (id \notin DOMAIN questions /\ delete_question(id)) => FailsUnchanged
            /\ \A title \in OptionalTexts, company_id \in OptionalIds :
                  ((id \notin DOMAIN sections \/ Unknown(company_id, companies))
                     /\ update_section_title(id, title, company_id)) => FailsUnchanged
            /\ (id \notin DOMAIN sections /\ delete_section(id)) => FailsUnchanged
            /\ \A company_name \in CompanyNames :
                  (id \notin DOMAIN companies /\ update_company(id, company_name))
                     => FailsUnchanged
            /\ \A set_null \in BOOLEAN :
                  (id \notin DOMAIN companies /\ delete_company(id, set_null))
                     => FailsUnchanged
        /\ \A user_id \in UserIdParams :
              ((UUID(user_id) = None \/ Get(UUID(user_id)) \notin DOMAIN profiles)
                 /\ delete_user(user_id)) => FailsUnchanged
      ]_vars

\* An update of question 1 carrying a new text and an unknown section has
\* been rejected; the question still has its text and its section.
C20_Witness ==
    /\ response.op = "update_question" /\ response.status = 404
    /\ response.detail = "Section not found"
    /\ response.question = Some("new")
    /\ questions[1] = [section_id |-> Some(1), question |-> "q"]

(***************************************************************************)
(* SpecSection: sections and questions are created, moved and deleted,     *)
(* and answers are submitted, over the store of InitCompany.               *)
(***************************************************************************)
NextSection ==
    \/ Idle /\ \E company_id \in OptionalIds : create_section("t", company_id)
    \/ Idle /\ \E section_id \in OptionalIds : create_question(section_id)
    \/ Idle /\ \E question_id \in IdParams, question \in OptionalTexts,
                  section_id \in OptionalIds :
                  update_question(question_id, question, section_id)
    \/ Idle /\ \E section_id \in IdParams : delete_section(section_id)
    \/ Idle /\ \E question_id \in IdParams : delete_question(question_id)
    \/ Idle /\ \E question_id \in IdParams :
                  submit_answer(question_id, [answer |-> "ok", rating |-> Some(2)],
                                [kind |-> "Profile", id |-> 1])
    \/ Reply

SpecSection == InitCompany /\ [][NextSection]_vars

\* The questions of section s.
QuestionsOf(s) == {q \in DOMAIN questions : questions[q].section_id = Some(s)}

(***************************************************************************)
(* C21: after a successful delete_section(s), section s no longer exists,  *)
(* every question that had section_id = s still exists with section_id     *)
(* null and is otherwise as it was, every other question is unchanged, no  *)
(* question is created or deleted, and the answers are exactly as before.  *)
(***************************************************************************)
C21_DeleteSectionFrame ==
    [][\A s \in IdParams :
         (Idle /\ delete_section(s) /\ response'.status = 200) =>
            /\ s \in DOMAIN sections
            /\ s \notin DOMAIN sections'
            /\ DOMAIN questions' = DOMAIN questions
            /\ \A q \in DOMAIN questions :
                  IF q \in QuestionsOf(s)
                  THEN questions'[q] = [questions[q] EXCEPT !.section_id = None]
                  ELSE questions'[q] = questions[q]
            /\ answers' = answers
      ]_vars

\* A section holding an answered question has been deleted while a question
\* of another section exists: the question is unsectioned, its answer stays.
C21_Witness ==
    /\ response.op = "delete_section" /\ response.status = 200
    /\ response.questions_updated = 1
    /\ \E q \in DOMAIN questions :
          /\ questions[q].section_id = None
          /\ \E id \in DOMAIN answers : answers[id].question_id = q
    /\ \E q \in DOMAIN questions : questions[q].section_id # None

(***************************************************************************)
(* C25: after any sequence of create_question, update_question,            *)
(* create_section, delete_section and delete_question, the section_id of   *)
(* every question is null or the id of an existing section.                *)
(***************************************************************************)
C25_SectionIdNullOrExisting ==
    \A q \in DOMAIN questions :
        \/ questions[q].section_id = None
        \/ Get(questions[q].section_id) \in DOMAIN sections

\* Section 1 has been deleted after one of its two questions was moved to
\* section 2: one question is unsectioned, the other is in section 2.
C25_Witness ==
    /\ DOMAIN sections = {2}
    /\ \E q \in DOMAIN questions : questions[q].section_id = Some(2)
    /\ \E q \in DOMAIN questions : questions[q].section_id = None

(***************************************************************************)
(* SpecSurvey: Profile 1 of company 1 and Profile 2 of company 2 answer    *)
(* while companies and sections are deleted and the completion report is   *)
(* read.  Question 1 is in section 1 of company 1, question 2 in section 3 *)
(* of company 2, question 3 is unsectioned, section 2 is global and empty; *)
(* question 4 does not exist.  The constraint of profiles.company_id is    *)
(* the one models.py declares (ON DELETE SET NULL).                        *)
(***************************************************************************)
InitSurvey ==
    /\ companies = (1 :> [name |-> "acme"]) @@ (2 :> [name |-> "other"])
    /\ sections = (1 :> [company_id |-> Some(1), title |-> "t"])
                    @@ (2 :> [company_id |-> None, title |-> "t"])
                    @@ (3 :> [company_id |-> Some(2), title |-> "t"])
    /\ questions = (1 :> [section_id |-> Some(1), question |-> "q"])
                     @@ (2 :> [section_id |-> Some(3), question |-> "q"])
                     @@ (3 :> [section_id |-> None, question |-> "q"])
    /\ profiles = (1 :> [email |-> "a@x", company_id |-> Some(1)])
                    @@ (2 :> [email |-> "b@x", company_id |-> Some(2)])
    /\ users = (1 :> [email |-> "staff@x", hashed_password |-> StaffHash,
                      company_id |-> None])
    /\ answers = EmptyTable
    /\ seq = [companies |-> 3, sections |-> 4, questions |-> 4, answers |-> 1]
    /\ clock = 0
    /\ Started
    /\ sessions = EmptyTable
    /\ response = NoResponse

SurveyQuestionIds == 1..4
SurveyBody == [answer |-> "ok", rating |-> Some(2)]
SurveyBatches ==
    {<<[question_id |-> q, answer |-> "ok", rating |-> Some(2),
        submitted_at |-> None]>> : q \in SurveyQuestionIds}

NextSurvey ==
    \/ Idle /\ \E question_id \in SurveyQuestionIds, current_user \in Identities :
                  submit_answer(question_id, SurveyBody, current_user)
    \/ Idle /\ \E batch \in SurveyBatches, current_user \in Identities :
                  submit_answers(current_user, batch, TRUE)
    \/ Idle /\ \E company_id \in 1..2 : get_users_by_company(company_id)
    \/ Idle /\ \E company_id \in 1..2 : delete_company(company_id, TRUE)
    \/ Idle /\ \E section_id \in 1..3 : delete_section(section_id)
    \/ Reply

SpecSurvey == InitSurvey /\ [][NextSurvey]_vars

\* The questions the completion report counts for the Profile: those of its
\* company's report (a Profile without company is in no report).
CountedFor(p) ==
    IF profiles[p].company_id = None THEN {}
    ELSE CompanyQuestions(Get(profiles[p].company_id))

\* answered_count and completion_percentage the report holds for the Profile.
ReportCounts(p) ==
    LET answered_count == AnsweredCount(UserAnswers(p), CountedFor(p))
    IN  [answered_count |-> answered_count,
         completion_percentage |->
             CompletionPercentage(answered_count, Cardinality(CountedFor(p)))]

\* completely_answered the report holds for the Profile.
ReportsComplete(p) ==
    \E first \in FirstAnswers(UserAnswers(p), CountedFor(p)) :
        UserRecord(p, first, CountedFor(p)).completely_answered

\* The step handles a submission of a Profile by one of the two endpoints;
\* the question it names.
SubmitStep ==
    /\ Idle
    /\ response'.op \in {"submit_answer", "submit_answers"}
    /\ response'.user.kind = "Profile"

SubmittedQuestion(resp) ==
    IF resp.op = "submit_answer" THEN resp.question_id
    ELSE resp.request[1].question_id

\* The submission was accepted: answered 200 and, for the batch endpoint,
\* the tuple is among the saved answers.
AcceptedSubmission(resp) ==
    /\ resp.status = 200
    /\ resp.op = "submit_answers" => Len(resp.answers) = 1

(***************************************************************************)
(* C26: submission does not check visibility.  Both endpoints accept the   *)
(* tuple of a Profile if and only if the question exists, also when the    *)
(* question is unsectioned or in a section of another company; the answer  *)
(* is then stored, and while the question is not among those counted for   *)
(* the submitter the submission leaves the submitter's answered_count and  *)
(* completion_percentage as they were.                                     *)
(***************************************************************************)
C26_SubmissionIgnoresVisibility ==
    [][\A p \in DOMAIN profiles, q \in SurveyQuestionIds :
         (SubmitStep /\ response'.user.id = p /\ SubmittedQuestion(response') = q) =>
             /\ AcceptedSubmission(response') <=> q \in DOMAIN questions
             /\ AcceptedSubmission(response') =>
                   \E id \in DOMAIN answers' : /\ answers'[id].user_id = p
                                               /\ answers'[id].question_id = q
             /\ q \notin CountedFor(p) => ReportCounts(p)' = ReportCounts(p)
      ]_vars

\* Profile 1 of company 1 holds an answer to question 2 of company 2's
\* section and one to the unsectioned question 3; the last was just
\* accepted, and its report counts no answer.
C26_Witness ==
    /\ response.op \in {"submit_answer", "submit_answers"}
    /\ AcceptedSubmission(response)
    /\ response.user = [kind |-> "Profile", id |-> 1]
    /\ SubmittedQuestion(response) = 3
    /\ AnswersOf(1, 2) # {} /\ AnswersOf(1, 3) # {}
    /\ questions[2].section_id = Some(3) /\ sections[3].company_id = Some(2)
    /\ profiles[1].company_id = Some(1)
    /\ ReportCounts(1).answered_count = 0

\* The step is a successful delete_company(c) / delete_section(s).
DeleteCompanyStep(c) ==
    /\ Idle
    /\ response'.op = "delete_company" /\ response'.status = 200
    /\ response'.company_id = c

DeleteSectionStep(s) ==
    /\ Idle
    /\ response'.op = "delete_section" /\ response'.status = 200
    /\ response'.section_id = s

\* The questions of the sections owned by company c.
OwnedQuestions(c) ==
    UNION {QuestionsOf(s) : s \in {s \in DOMAIN sections :
                                      sections[s].company_id = Some(c)}}

(***************************************************************************)
(* C27: admin operations change completion without the user acting.       *)
(* After delete_company(c) every section c owned is global and its         *)
(* questions are counted for the users of every other company, so a user   *)
(* of another company who has not answered one of them is not completely   *)
(* answered any more; after delete_section(s) the questions of s are       *)
(* counted for no user.  Neither operation changes an answer.              *)
(***************************************************************************)
C27_AdminChangesCompletion ==
    [][/\ \A c \in DOMAIN companies :
            DeleteCompanyStep(c) =>
               /\ answers' = answers
               /\ \A s \in DOMAIN sections :
                     sections[s].company_id = Some(c) =>
                         /\ sections'[s].company_id = None
                         /\ \A c2 \in DOMAIN companies' :
                               QuestionsOf(s) \subseteq CompanyQuestions(c2)'
               /\ \A p \in DOMAIN profiles :
                     (/\ profiles[p].company_id \notin {None, Some(c)}
                      /\ \E q \in OwnedQuestions(c) : AnswersOf(p, q) = {})
                        => ~ReportsComplete(p)'
       /\ \A s \in DOMAIN sections :
            DeleteSectionStep(s) =>
               /\ answers' = answers
               /\ \A p \in DOMAIN profiles' : QuestionsOf(s) \cap CountedFor(p)' = {}
      ]_vars

\* Company 1 has just been deleted.  Profile 2 of company 2 has answered
\* every question that was counted for it before (those counted now less
\* the question of the section company 1 owned), so it was completely
\* answered; question 1 is counted for it now and it is not any more.
C27_Witness ==
    /\ response.op = "delete_company" /\ response.status = 200
    /\ response.company_id = 1
    /\ 1 \in DOMAIN sections /\ sections[1].company_id = None
    /\ QuestionsOf(1) = {1}
    /\ profiles[2].company_id = Some(2)
    /\ CountedFor(2) = {1, 2}
    /\ AnswersOf(2, 2) # {} /\ AnswersOf(2, 1) = {}
    /\ \A id \in AnswersOf(2, 2) : IsComplete(answers[id])
    /\ ~ReportsComplete(2)

(***************************************************************************)
(* Password reset by one-time code (user)                                  *)
(***************************************************************************)
OTP_EXPIRATION_SECONDS == 300

\* An account with the email exists: a Profile or a User.
AccountExists(email) ==
    \/ \E p \in DOMAIN profiles : profiles[p].email = email
    \/ \E u \in DOMAIN users : users[u].email = email

\* The body shared by forgot_password and resend_otp: otp is the value of
\* random.randint(1000, 9999), sent tells whether the SMTP delivery worked.
\* The code is stored before the mail is attempted.
IssueCode(op, email, otp, sent) ==
    /\ IF ~AccountExists(email)
       THEN /\ response' = [op |-> op, status |-> 404, detail |-> "User not found",
                            email |-> email]
            /\ UNCHANGED reset_codes
       ELSE /\ reset_codes' = (email :> [otp |-> ToString(otp), timestamp |-> clock])
                                 @@ reset_codes
            /\ response' = [op |-> op, status |-> IF sent THEN 200 ELSE 500,
                            detail |-> IF sent THEN "sent" ELSE "Failed to send email",
                            email |-> email]
    /\ UNCHANGED <<store, seq, clock, sessions, admin_login, startup>>

\* POST /user/forgot-password
forgot_password(email, otp, sent) == IssueCode("forgot_password", email, otp, sent)

\* POST /user/resend-otp
resend_otp(email, otp, sent) == IssueCode("resend_otp", email, otp, sent)

\* The users table with the password of the user of this email replaced.
SetPassword(email, hashed) ==
    [u \in DOMAIN users |->
        IF users[u].email = email
        THEN [users[u] EXCEPT !.hashed_password = hashed]
        ELSE users[u]]

\* Mutant: the age of the code is not checked.
reset_password_no_expiry(email, code, new_password, salt) ==
    LET reply(status, detail) ==
            [op |-> "reset_password", status |-> status, detail |-> detail,
             email |-> email, code |-> code]
    IN  /\ IF email \notin DOMAIN reset_codes
           THEN /\ response' = reply(400, "No reset request found")
                /\ UNCHANGED <<reset_codes, users>>
           ELSE IF reset_codes[email].otp # code
           THEN /\ response' = reply(400, "Invalid verification code")
                /\ UNCHANGED <<reset_codes, users>>
           ELSE IF ~AccountExists(email)
           THEN /\ response' = reply(404, "User not found")
                /\ UNCHANGED <<reset_codes, users>>
           ELSE /\ users' = SetPassword(email, get_password_hash(new_password, salt))
                /\ reset_codes' = Without(reset_codes, {email})
                /\ response' = reply(200, "Password reset successfully")
        /\ UNCHANGED <<companies, sections, questions, profiles, answers, seq, clock,
                       sessions, admin_login, startup>>

\* Mutant: the record stays in reset_codes after the password was reset.
reset_password_keep_record(email, code, new_password, salt) ==
    LET reply(status, detail) ==
            [op |-> "reset_password", status |-> status, detail |-> detail,
             email |-> email, code |-> code]
    IN  /\ IF email \notin DOMAIN reset_codes
           THEN /\ response' = reply(400, "No reset request found")
                /\ UNCHANGED <<reset_codes, users>>
           ELSE IF clock - reset_codes[email].timestamp > OTP_EXPIRATION_SECONDS
           THEN /\ reset_codes' = Without(reset_codes, {email})
                /\ response' = reply(400, "Verification code expired")
                /\ UNCHANGED users
           ELSE IF reset_codes[email].otp # code
           THEN /\ response' = reply(400, "Invalid verification code")
                /\ UNCHANGED <<reset_codes, users>>
           ELSE IF ~AccountExists(email)
           THEN /\ response' = reply(404, "User not found")
                /\ UNCHANGED <<reset_codes, users>>
           ELSE /\ users' = SetPassword(email, get_password_hash(new_password, salt))
                /\ reset_codes' = reset_codes
                /\ response' = reply(200, "Password reset successfully")
        /\ UNCHANGED <<companies, sections, questions, profiles, answers, seq, clock,
                       sessions, admin_login, startup>>

\* POST /user/reset-password ; salt is the salt get_password_hash draws.
reset_password(email, code, new_password, salt) ==
    LET reply(status, detail) ==
            [op |-> "reset_password", status |-> status, detail |-> detail,
             email |-> email, code |-> code]
    IN  /\ IF email \notin DOMAIN reset_codes
           THEN /\ response' = reply(400, "No reset request found")
                /\ UNCHANGED <<reset_codes, users>>
           ELSE IF clock - reset_codes[email].timestamp > OTP_EXPIRATION_SECONDS
           THEN /\ reset_codes' = Without(reset_codes, {email})
                /\ response' = reply(400, "Verification code expired")
                /\ UNCHANGED users
           ELSE IF reset_codes[email].otp # code
           THEN /\ response' = reply(400, "Invalid verification code")
                /\ UNCHANGED <<reset_codes, users>>
           ELSE IF ~AccountExists(email)
           THEN /\ response' = reply(404, "User not found")
                /\ UNCHANGED <<reset_codes, users>>
           ELSE \* only the users table has a password
                /\ users' = SetPassword(email, get_password_hash(new_password, salt))
                /\ reset_codes' = Without(reset_codes, {email})
                /\ response' = reply(200, "Password reset successfully")
        /\ UNCHANGED <<companies, sections, questions, profiles, answers, seq, clock,
                       sessions, admin_login, startup>>

\* time.time() advances by d seconds between two requests.
Sleep(d) ==
    /\ clock + d <= MaxSleeps * (OTP_EXPIRATION_SECONDS + 1)
    /\ clock' = clock + d
    /\ UNCHANGED <<store, seq, sessions, reset_codes, admin_login, startup, response>>

(***************************************************************************)
(* SpecReset: codes are issued, time passes around the expiration window,  *)
(* and passwords are reset, for the Profile a@x and the User staff@x of    *)
(* InitCompany and for an email without account.                           *)
(***************************************************************************)
ResetEmails == {"a@x", "staff@x", "nobody@x"}
Otps == {1000, 9999}
Codes == {ToString(otp) : otp \in Otps}
Elapses == {OTP_EXPIRATION_SECONDS - 1, OTP_EXPIRATION_SECONDS,
            OTP_EXPIRATION_SECONDS + 1}

NextReset ==
    \/ Idle /\ \E email \in ResetEmails, otp \in Otps, sent \in BOOLEAN :
                  forgot_password(email, otp, sent)
    \/ Idle /\ \E email \in ResetEmails, otp \in Otps, sent \in BOOLEAN :
                  resend_otp(email, otp, sent)
    \/ Idle /\ \E email \in ResetEmails, code \in Codes, salt \in Salts :
                  reset_password(email, code, "new", salt)
    \/ Idle /\ \E user_id \in UserIdParams : delete_user(user_id)
    \/ Idle /\ \E d \in Elapses : Sleep(d)
    \/ Reply

SpecReset == InitCompany /\ [][NextReset]_vars

\* The step handles a reset_password request.
ResetStep == Idle /\ response'.op = "reset_password"

\* The step handles a forgot_password or resend_otp request for an account.
IssueStep ==
    /\ Idle
    /\ response'.op \in {"forgot_password", "resend_otp"}
    /\ response'.status # 404

\* Seconds since the code of the email was issued.
Age(email) == clock - reset_codes[email].timestamp

(***************************************************************************)
(* C22: reset_password succeeds only if a code is on record for the email, *)
(* the supplied code equals it and no more than OTP_EXPIRATION_SECONDS     *)
(* have passed since it was issued; otherwise it answers with an error and *)
(* changes no password.  The record of an email is the code issued last:   *)
(* forgot_password and resend_otp for an account put the new code with the *)
(* current time in place of any earlier one, and nothing else writes a     *)
(* record.                                                                 *)
(***************************************************************************)
C22_ResetNeedsLatestFreshCode ==
    [][/\ ResetStep =>
            LET email == response'.email
            IN  IF response'.status = 200
                THEN /\ email \in DOMAIN reset_codes
                     /\ reset_codes[email].otp = response'.code
                     /\ Age(email) <= OTP_EXPIRATION_SECONDS
                ELSE /\ response'.status \in {400, 404}
                     /\ users' = users
       /\ IssueStep =>
            /\ response'.email \in DOMAIN reset_codes'
            /\ reset_codes'[response'.email].otp \in Codes
            /\ reset_codes'[response'.email].timestamp = clock
       /\ \A email \in DOMAIN reset_codes' :
            (email \notin DOMAIN reset_codes
                \/ reset_codes'[email] # reset_codes[email])
               => IssueStep /\ response'.email = email
      ]_vars

\* The password of the user staff@x has been reset with a code that was
\* OTP_EXPIRATION_SECONDS old or younger, after time has passed.
C22_Witness ==
    /\ response.op = "reset_password" /\ response.status = 200
    /\ response.email = "staff@x"
    /\ users[1].hashed_password.password = "new"
    /\ clock >= OTP_EXPIRATION_SECONDS

(***************************************************************************)
(* C23: a reset code is single-use and expiry is terminal.  A successful   *)
(* reset_password and an attempt made past the expiration window remove    *)
(* the record of the email; without a record every reset_password is       *)
(* rejected with "No reset request found" and changes nothing, and only a  *)
(* new issuance creates a record; an attempt with a wrong code inside the  *)
(* window is rejected and leaves the record in place.                      *)
(***************************************************************************)
C23_CodeSingleUseExpiryTerminal ==
    [][/\ ResetStep =>
            LET email == response'.email
            IN  /\ (response'.status = 200
                      \/ response'.detail = "Verification code expired")
                     => email \notin DOMAIN reset_codes'
                /\ email \notin DOMAIN reset_codes =>
                     /\ response'.status = 400
                     /\ response'.detail = "No reset request found"
                     /\ reset_codes' = reset_codes
                     /\ users' = users
                /\ (email \in DOMAIN reset_codes
                      /\ Age(email) > OTP_EXPIRATION_SECONDS)
                     => response'.detail = "Verification code expired"
                /\ (email \in DOMAIN reset_codes
                      /\ Age(email) <= OTP_EXPIRATION_SECONDS
                      /\ reset_codes[email].otp # response'.code) =>
                     /\ response'.detail = "Invalid verification code"
                     /\ reset_codes' = reset_codes
       /\ \A email \in DOMAIN reset_codes' \ DOMAIN reset_codes :
            IssueStep /\ response'.email = email
      ]_vars

\* Right after the password of staff@x was reset, a further attempt for
\* the email is rejected: there is no reset request any more.
C23_Witness ==
    /\ response.op = "reset_password"
    /\ response.detail = "No reset request found"
    /\ response.email = "staff@x"
    /\ users[1].hashed_password.password = "new"
    /\ clock = 0

(***************************************************************************)
(* Submissions overlapping with deletions.  Every request runs in its own  *)
(* transaction (READ COMMITTED): a query sees the committed rows, a write  *)
(* is one statement, and the foreign keys of user_answers are checked by   *)
(* the database at every statement.  sessions[r] is request r:             *)
(*   op          the handler                                               *)
(*   user_id, question_id   its arguments                                  *)
(*   pc          "query", "flush", "answers", "commit", then "done"        *)
(*               (committed) or "failed" (rolled back)                     *)
(*   added       the UserAnswer added to the Session, not INSERTed yet     *)
(*   new         the row INSERTed in the open transaction                  *)
(*   dirty       ids of the loaded rows with assigned attributes           *)
(*   deleted     ids of the rows the bulk DELETE removed                   *)
(*   error       the exception that ended the request                      *)
(* A row INSERTed in an open transaction holds a key-share lock on the     *)
(* rows it references, a row deleted in an open transaction is locked:     *)
(* a statement that meets such a lock waits for the other transaction.     *)
(***************************************************************************)
\* Mutant: user_answers has no foreign keys.
ForeignKeyViolationsNone(db_answers, db_questions, db_profiles) == {}

\* The rows of user_answers whose question_id or user_id references no row
\* (ForeignKey('questions.id'), ForeignKey('profiles.id')).
ForeignKeyViolations(db_answers, db_questions, db_profiles) ==
    {id \in DOMAIN db_answers :
        \/ db_answers[id].question_id \notin DOMAIN db_questions
        \/ db_answers[id].user_id \notin DOMAIN db_profiles}

\* Requests whose transaction is open.
Active == {r \in DOMAIN sessions : sessions[r].pc \notin {"done", "failed"}}

\* Another open transaction has INSERTed a row that references the row.
KeyShared(r, column, id) ==
    \E r2 \in Active \ {r} :
        \E a \in DOMAIN sessions[r2].new : sessions[r2].new[a][column] = id

\* Another open transaction has deleted one of the rows.
RowLocked(r, ids) ==
    \E r2 \in Active \ {r} : sessions[r2].deleted \cap ids # {}

\* get_db() opens the Session of a new request.
begin(op, user_id, question_id) ==
    LET r == Cardinality(DOMAIN sessions) + 1
    IN  /\ r <= MaxRequests
        /\ sessions' = sessions @@
              (r :> [op |-> op, user_id |-> user_id, question_id |-> question_id,
                     pc |-> "query", added |-> None, new |-> EmptyTable,
                     dirty |-> {}, deleted |-> {}, error |-> ""])
        /\ UNCHANGED <<store, seq, clock, reset_codes, admin_login, startup, response>>

\* The request ends with an exception: get_db() closes the Session, which
\* rolls the transaction back.
Fail(r, error) == [sessions EXCEPT ![r].pc = "failed", ![r].error = error]

\* The two queries of a submission: the question, then the answer of the
\* pair.  submit_answers skips an unknown question and commits nothing,
\* submit_answer raises 404; submit_answers flushes a new answer at once.
submit_query(r) ==
    LET s == sessions[r]
        found == {id \in DOMAIN answers : /\ answers[id].user_id = s.user_id
                                          /\ answers[id].question_id = s.question_id}
    IN  /\ s.op \in {"submit_answers", "submit_answer"} /\ s.pc = "query"
        /\ IF s.question_id \notin DOMAIN questions
           THEN sessions' = IF s.op = "submit_answer"
                            THEN Fail(r, "Question not found")
                            ELSE [sessions EXCEPT ![r].pc = "commit"]
           ELSE IF found # {}
           THEN \E id \in found :
                    sessions' = [sessions EXCEPT ![r].dirty = {id},
                                                 ![r].pc = "commit"]
           ELSE sessions' =
                  [sessions EXCEPT
                     ![r].added = Some(CreateAnswer(s.question_id, s.user_id, "ok",
                                                    Some(2), Some(now(clock)))),
                     ![r].pc = IF s.op = "submit_answers" THEN "flush"
                               ELSE "commit"]
        /\ UNCHANGED <<store, seq, clock, reset_codes, admin_login, startup, response>>

\* db.flush() in submit_answers: the INSERT of the new answer.
submit_flush(r) ==
    LET s == sessions[r]
        row == seq.answers :> Get(s.added)
    IN  /\ s.pc = "flush"
        /\ seq.answers <= MaxAnswerId
        /\ seq' = [seq EXCEPT !.answers = seq.answers + 1]
        /\ sessions' =
              IF ForeignKeyViolations(row @@ answers, questions, profiles) # {}
              THEN Fail(r, "IntegrityError")
              ELSE [sessions EXCEPT ![r].added = None, ![r].new = row,
                                    ![r].pc = "commit"]
        /\ UNCHANGED <<store, clock, reset_codes, admin_login, startup, response>>

\* db.commit() of a submission: the UPDATE of the loaded answer or the
\* INSERT of the added one is flushed, then the transaction commits.
submit_commit(r) ==
    LET s == sessions[r]
        row == seq.answers :> Get(s.added)
    IN  /\ s.op \in {"submit_answers", "submit_answer"} /\ s.pc = "commit"
        /\ ~RowLocked(r, s.dirty)
        /\ IF s.dirty # {}
           THEN IF s.dirty \subseteq DOMAIN answers
                THEN /\ answers' =
                          [id \in DOMAIN answers |->
                              IF id \in s.dirty
                              THEN UpdateExisting(answers[id], "ok", Some(2),
                                                  Some(now(clock)))
                              ELSE answers[id]]
                     /\ sessions' = [sessions EXCEPT ![r].pc = "done"]
                     /\ UNCHANGED seq
                ELSE /\ sessions' = Fail(r, "StaleDataError")
                     /\ UNCHANGED <<answers, seq>>
           ELSE IF s.added # None
           THEN /\ seq.answers <= MaxAnswerId
                /\ seq' = [seq EXCEPT !.answers = seq.answers + 1]
                /\ IF ForeignKeyViolations(row @@ answers, questions, profiles) # {}
                   THEN /\ sessions' = Fail(r, "IntegrityError")
                        /\ UNCHANGED answers
                   ELSE /\ answers' = row @@ answers
                        /\ sessions' = [sessions EXCEPT ![r].pc = "done"]
           ELSE /\ answers' = s.new @@ answers
                /\ sessions' = [sessions EXCEPT ![r].pc = "done"]
                /\ UNCHANGED seq
        /\ UNCHANGED <<companies, sections, questions, profiles, users, clock,
                       reset_codes, admin_login, startup, response>>

\* The first query of delete_question and of delete_user: the parent row.
delete_query(r) ==
    LET s == sessions[r]
        known == IF s.op = "delete_question" THEN s.question_id \in DOMAIN questions
                 ELSE s.user_id \in DOMAIN profiles
    IN  /\ s.op \in {"delete_question", "delete_user"} /\ s.pc = "query"
        /\ sessions' = IF known THEN [sessions EXCEPT ![r].pc = "answers"]
                       ELSE Fail(r, "not found")
        /\ UNCHANGED <<store, seq, clock, reset_codes, admin_login, startup, response>>

\* The committed answers of the parent of a deletion.
AnswersOfParent(s) ==
    {id \in DOMAIN answers :
        IF s.op = "delete_question" THEN answers[id].question_id = s.question_id
        ELSE answers[id].user_id = s.user_id}

\* db.query(UserAnswer).filter(...).delete(): the bulk DELETE of the answers
\* of the parent that are committed when the statement runs.
delete_answers(r) ==
    LET s == sessions[r]
    IN  /\ s.pc = "answers"
        /\ ~RowLocked(r, AnswersOfParent(s))
        /\ sessions' = [sessions EXCEPT ![r].deleted = AnswersOfParent(s),
                                        ![r].pc = "commit"]
        /\ UNCHANGED <<store, seq, clock, reset_codes, admin_login, startup, response>>

\* db.delete(parent); db.commit(): the DELETE of the parent row is flushed
\* and the transaction commits, unless the row is gone (another request
\* deleted it) or an answer still references it.
delete_commit(r) ==
    LET s == sessions[r]
        is_question == s.op = "delete_question"
        questions_after == IF is_question
                           THEN Without(questions, {s.question_id}) ELSE questions
        profiles_after == IF is_question THEN profiles
                          ELSE Without(profiles, {s.user_id})
        answers_after == Without(answers, s.deleted \cap DOMAIN answers)
    IN  /\ s.op \in {"delete_question", "delete_user"} /\ s.pc = "commit"
        /\ ~KeyShared(r, IF is_question THEN "question_id" ELSE "user_id",
                      IF is_question THEN s.question_id ELSE s.user_id)
        /\ IF questions_after = questions /\ profiles_after = profiles
           THEN /\ sessions' = Fail(r, "StaleDataError")
                /\ UNCHANGED <<questions, profiles, answers>>
           ELSE IF ForeignKeyViolations(answers_after, questions_after,
                                        profiles_after) # {}
           THEN /\ sessions' = Fail(r, "IntegrityError")
                /\ UNCHANGED <<questions, profiles, answers>>
           ELSE /\ questions' = questions_after
                /\ profiles' = profiles_after
                /\ answers' = answers_after
                /\ sessions' = [sessions EXCEPT ![r].pc = "done"]
        /\ UNCHANGED <<companies, sections, users, seq, clock,
                       reset_codes, admin_login, startup, response>>

(***************************************************************************)
(* SpecRef: up to MaxRequests overlapping requests over question 1 and     *)
(* Profile 1: submissions of the Profile to the question, by either        *)
(* endpoint, delete_question(1) and delete_user(1); the Profile has        *)
(* answered the question before, or has not.                               *)
(***************************************************************************)
InitRef ==
    /\ companies = EmptyTable
    /\ sections = EmptyTable
    /\ questions = (1 :> [section_id |-> None, question |-> "q"])
    /\ profiles = (1 :> [email |-> "a@x", company_id |-> None])
    /\ users = EmptyTable
    /\ answers \in {EmptyTable,
                    (1 :> CreateAnswer(1, 1, "old", Some(1), Some(now(0))))}
    /\ seq = [companies |-> 1, sections |-> 1, questions |-> 2,
              answers |-> Cardinality(DOMAIN answers) + 1]
    /\ clock = 0
    /\ Started
    /\ sessions = EmptyTable
    /\ response = NoResponse

RefOps == {"submit_answers", "submit_answer", "delete_question", "delete_user"}

NextRef ==
    \/ \E op \in RefOps : begin(op, 1, 1)
    \/ \E r \in DOMAIN sessions : submit_query(r)
    \/ \E r \in DOMAIN sessions : submit_flush(r)
    \/ \E r \in DOMAIN sessions : submit_commit(r)
    \/ \E r \in DOMAIN sessions : delete_query(r)
    \/ \E r \in DOMAIN sessions : delete_answers(r)
    \/ \E r \in DOMAIN sessions : delete_commit(r)

SpecRef == InitRef /\ [][NextRef]_vars

(***************************************************************************)
(* C24: referential integrity holds under interleaving.  While             *)
(* submissions of Profile p to question q overlap with delete_question(q)  *)
(* and delete_user(p), every committed Answer references a Question and a  *)
(* Profile that exist.                                                     *)
(***************************************************************************)
C24_ReferentialIntegrityInterleaved ==
    \A id \in DOMAIN answers :
        /\ answers[id].question_id \in DOMAIN questions
        /\ answers[id].user_id \in DOMAIN profiles

\* A submission found the question, the question was deleted and committed
\* before the submission wrote its answer, and the write was refused.
C24_Witness ==
    \E r1, r2 \in DOMAIN sessions :
        /\ sessions[r1].op \in {"submit_answers", "submit_answer"}
        /\ sessions[r1].pc = "failed" /\ sessions[r1].error = "IntegrityError"
        /\ sessions[r2].op = "delete_question" /\ sessions[r2].pc = "done"
        /\ DOMAIN questions = {}

(***************************************************************************)
(* Login (user)                                                            *)
(***************************************************************************)
\* POST /user/login ; the token carries the email it was created for.  A
\* User is checked against its stored hash; a Profile has no stored hash
\* and gets a token for any password.
login(email, password) ==
    LET db_profile == {p \in DOMAIN profiles : profiles[p].email = email}
        db_user == {u \in DOMAIN users : users[u].email = email}
        reply(status, token) ==
            [op |-> "login", status |-> status, email |-> email,
             password |-> password, access_token |-> token]
    IN  /\ IF \E u \in db_user : verify_password(password, users[u].hashed_password)
           THEN response' = reply(200, Some([sub |-> email]))
           ELSE IF db_profile # {}
           THEN \E p \in db_profile :
                   response' = reply(200, Some([sub |-> email, profile_id |-> p]))
           ELSE response' = reply(401, None)
        /\ UNCHANGED <<store, seq, clock, sessions, reset_codes, admin_login, startup>>

(***************************************************************************)
(* SpecLogin: logins with right and wrong passwords for the Profile a@x,   *)
(* the User staff@x (password "pw"), a Profile that signs up and an email  *)
(* without account, while the User's password is reset.                    *)
(***************************************************************************)
LoginEmails == {"a@x", "b@x", "staff@x", "nobody@x"}
LoginPasswords == {"pw", "new", "wrong"}

NextLogin ==
    \/ Idle /\ \E email \in LoginEmails, password \in LoginPasswords :
                  login(email, password)
    \/ Idle /\ \E company_id \in OptionalIds : signup("b@x", company_id)
    \/ Idle /\ \E otp \in Otps, sent \in BOOLEAN :
                  forgot_password("staff@x", otp, sent)
    \/ Idle /\ \E code \in Codes, salt \in Salts :
                  reset_password("staff@x", code, "new", salt)
    \/ Reply

SpecLogin == InitCompany /\ [][NextLogin]_vars

\* The stored hashes of the accounts with the email (Profiles have none).
StoredHashes(email) ==
    {users[u].hashed_password : u \in {u \in DOMAIN users : users[u].email = email}}

(***************************************************************************)
(* C29: login issues an access token only when the supplied password       *)
(* verifies against the stored hash of the account with that email; a      *)
(* login with the email of an existing account and a wrong password gets   *)
(* 401 and no token.                                                       *)
(***************************************************************************)
C29_TokenOnlyWithPassword ==
    response.op = "login" =>
        IF \E hashed \in StoredHashes(response.email) :
               verify_password(response.password, hashed)
        THEN response.status = 200 /\ response.access_token # None
        ELSE response.status = 401 /\ response.access_token = None

(***************************************************************************)
(* Startup.  startup is the process: pc the step startup_event is at       *)
(* ("serving" once it has returned), tables whether the tables exist in    *)
(* the database, log the steps this start has run with their outcome,      *)
(* boots the number of starts.  Every step can fail (the database cannot   *)
(* be reached); startup_event catches the exception and goes on.           *)
(***************************************************************************)
\* func.lower / str.lower on the emails of the model.
lower(s) == IF s = "Stefan.Zanetti@pivotal.ag" THEN "stefan.zanetti@pivotal.ag" ELSE s

\* The step of startup_event that follows, with this one logged.
Logged(step, ok, next) ==
    [startup EXCEPT !.pc = next, !.log = Append(@, [step |-> step, ok |-> ok])]

\* The process starts: uvicorn fires the startup event.
boot ==
    /\ startup.pc = "serving"
    /\ startup.boots < MaxBoots
    /\ startup' = [startup EXCEPT !.pc = "run_migrations", !.log = <<>>,
                                  !.boots = @ + 1]
    /\ UNCHANGED <<store, seq, clock, sessions, reset_codes, admin_login, response>>

\* run_migrations(): adds a column to questions where it is missing; it
\* logs its own failures and raises nothing.
run_migrations(ok) ==
    /\ startup.pc = "run_migrations"
    /\ startup' = Logged("run_migrations", ok, "create_all")
    /\ UNCHANGED <<store, seq, clock, sessions, reset_codes, admin_login, response>>

\* Base.metadata.create_all(bind=engine)
create_all(ok) ==
    /\ startup.pc = "create_all"
    /\ startup' = [Logged("create_all", ok, "create_default_admin")
                     EXCEPT !.tables = @ \/ ok]
    /\ UNCHANGED <<store, seq, clock, sessions, reset_codes, admin_login, response>>

\* The AdminLogin rows create_default_admin looks for.
AdminRows == {id \in DOMAIN admin_login :
                 lower(admin_login[id].email) = lower(ADMIN_EMAIL)}

\* Mutant: the password of an existing administrator is left as it is.
create_default_admin_keep_password(ok, salt) ==
    /\ startup.pc = "create_default_admin"
    /\ IF ~(ok /\ startup.tables)
       THEN /\ startup' = Logged("create_default_admin", FALSE, "serving")
            /\ UNCHANGED admin_login
       ELSE IF AdminRows # {}
       THEN \E existing \in AdminRows :
               /\ admin_login' = [admin_login EXCEPT ![existing].email = ADMIN_EMAIL]
               /\ startup' = Logged("create_default_admin", TRUE, "serving")
       ELSE /\ admin_login' =
                 (Cardinality(DOMAIN admin_login) + 1 :>
                     [email |-> ADMIN_EMAIL,
                      hashed_password |-> get_password_hash("admin123", salt)])
                 @@ admin_login
            /\ startup' = Logged("create_default_admin", TRUE, "serving")
    /\ UNCHANGED <<store, seq, clock, sessions, reset_codes, response>>

\* create_default_admin(): ok is whether its transaction can be carried out
\* (it needs the table); salt is the salt of a new hash.  Its exceptions are
\* caught in the function, which rolls back and returns.
create_default_admin(ok, salt) ==
    /\ startup.pc = "create_default_admin"
    /\ IF ~(ok /\ startup.tables)
       THEN /\ startup' = Logged("create_default_admin", FALSE, "serving")
            /\ UNCHANGED admin_login
       ELSE IF AdminRows # {}
       THEN \E existing \in AdminRows :
               IF \E id \in DOMAIN admin_login \ {existing} :
                     admin_login[id].email = ADMIN_EMAIL
               THEN \* email is unique: the UPDATE is refused
                    /\ startup' = Logged("create_default_admin", FALSE, "serving")
                    /\ UNCHANGED admin_login
               ELSE /\ admin_login' =
                         [admin_login EXCEPT
                            ![existing].email = ADMIN_EMAIL,
                            ![existing].hashed_password =
                                IF verify_password("admin123", @) THEN @
                                ELSE get_password_hash("admin123", salt)]
                    /\ startup' = Logged("create_default_admin", TRUE, "serving")
       ELSE /\ admin_login' =
                 (Cardinality(DOMAIN admin_login) + 1 :>
                     [email |-> ADMIN_EMAIL,
                      hashed_password |-> get_password_hash("admin123", salt)])
                 @@ admin_login
            /\ startup' = Logged("create_default_admin", TRUE, "serving")
    /\ UNCHANGED <<store, seq, clock, sessions, reset_codes, response>>

(***************************************************************************)
(* SpecStartup: up to MaxBoots starts of the process against one database: *)
(* a new one without tables, or one an earlier deployment left with an     *)
(* administrator whose email is spelled in other case or whose password is *)
(* not the default one.                                                    *)
(***************************************************************************)
LegacyAdmins ==
    {[email |-> email, hashed_password |-> get_password_hash(password, "s1")]
        : email \in {ADMIN_EMAIL, "Stefan.Zanetti@pivotal.ag"},
          password \in {"admin123", "old"}}

InitStartup ==
    /\ companies = EmptyTable /\ sections = EmptyTable /\ questions = EmptyTable
    /\ profiles = EmptyTable /\ users = EmptyTable /\ answers = EmptyTable
    /\ seq = [companies |-> 1, sections |-> 1, questions |-> 1, answers |-> 1]
    /\ clock = 0
    /\ reset_codes = EmptyTable
    /\ \/ /\ admin_login = EmptyTable
          /\ startup = [pc |-> "serving", tables |-> FALSE, log |-> <<>>, boots |-> 0]
       \/ /\ \E row \in LegacyAdmins : admin_login = (1 :> row)
          /\ startup = [pc |-> "serving", tables |-> TRUE, log |-> <<>>, boots |-> 0]
    /\ sessions = EmptyTable
    /\ response = NoResponse

NextStartup ==
    \/ boot
    \/ \E ok \in BOOLEAN : run_migrations(ok)
    \/ \E ok \in BOOLEAN : create_all(ok)
    \/ \E ok \in BOOLEAN, salt \in Salts : create_default_admin(ok, salt)

SpecStartup == InitStartup /\ [][NextStartup]_vars

\* The names of the steps this start has run, in order.
StepsRun == [k \in DOMAIN startup.log |-> startup.log[k].step]

\* The steps run are those that precede the step the start is at, in the
\* order of startup_event, whatever their outcome.
StepsInOrder ==
    /\ startup.pc = "run_migrations" => StepsRun = <<>>
    /\ startup.pc = "create_all" => StepsRun = <<"run_migrations">>
    /\ startup.pc = "create_default_admin" =>
          StepsRun = <<"run_migrations", "create_all">>
    /\ (startup.pc = "serving" /\ startup.boots > 0) =>
          StepsRun = <<"run_migrations", "create_all", "create_default_admin">>

\* There is exactly one administrator row, it has the fixed email and its
\* hash verifies the default password.
OneDefaultAdmin ==
    /\ Cardinality(AdminRows) = 1
    /\ \A id \in AdminRows :
          /\ admin_login[id].email = ADMIN_EMAIL
          /\ verify_password("admin123", admin_login[id].hashed_password)

\* create_default_admin has run in this start or in an earlier one.
AdminStepHasRun ==
    \/ startup.boots > 1
    \/ startup.boots = 1 /\ startup.pc = "serving"

(***************************************************************************)
(* C30 as stated: the three steps run in the fixed order whatever fails,   *)
(* and once create_default_admin has run, any number of times, there is    *)
(* exactly one AdminLogin row for the fixed email, with a hash that        *)
(* verifies the default password.                                          *)
(***************************************************************************)
C30_StartupOrderAndIdempotent ==
    /\ StepsInOrder
    /\ AdminStepHasRun => OneDefaultAdmin

(***************************************************************************)
(* C30, amended: the three steps run in the fixed order and a failure of   *)
(* an earlier step never keeps a later one from running; a run of          *)
(* create_default_admin that carries out its transaction leaves exactly    *)
(* one AdminLogin row for the fixed email, with a hash that verifies the   *)
(* default password, every later run leaves that row as it is, and a run   *)
(* that fails (no table, no database) leaves the table as it was.          *)
(***************************************************************************)
C30_StartupOrderAndAdmin ==
    /\ [](StepsInOrder)
    /\ []((startup.pc = "serving" /\ startup.boots > 0 /\ startup.log[3].ok)
             => OneDefaultAdmin)
    /\ [][/\ OneDefaultAdmin => admin_login' = admin_login
          /\ (startup.pc = "create_default_admin" /\ ~startup'.log[3].ok)
                => admin_login' = admin_login
         ]_vars

\* In the second start run_migrations and create_all have failed and
\* create_default_admin has run all the same; the administrator the first
\* start repaired or created is there, once.
C30_Witness ==
    /\ startup.boots = 2 /\ startup.pc = "serving"
    /\ ~startup.log[1].ok /\ ~startup.log[2].ok
    /\ startup.log[3].step = "create_default_admin"
    /\ OneDefaultAdmin
    /\ \E id \in AdminRows : admin_login[id].hashed_password.salt = "s2"

=============================================================================
